---------------------------- MODULE Spec2Model ----------------------------
(***************************************************************************)
(* Universal Ads SDK (Python): request signing (universal_ads_sdk/auth.py) *)
(* and the API client built on it (universal_ads_sdk/client.py).           *)
(*                                                                         *)
(* Strings are sequences of one-character strings, so that parsing,        *)
(* joining and encoding are computed character by character.  Python's     *)
(* indices are 0-based and find() returns -1; here indices are 1-based     *)
(* and Find returns 0 when nothing is found.                               *)
(***************************************************************************)
EXTENDS Integers, Sequences, FiniteSets, TLC


----------------------------------------------------------------------------
(* Character tables.                                                       *)

CodeOf ==
       ("\t" :> 9) @@ ("\n" :> 10) @@ ("\r" :> 13) @@ (" " :> 32) @@ ("!" :> 33) @@ ("\"" :> 34)
    @@ ("#" :> 35) @@ ("$" :> 36) @@ ("%" :> 37) @@ ("&" :> 38) @@ ("'" :> 39) @@ ("(" :> 40) @@ (")" :> 41)
    @@ ("*" :> 42) @@ ("+" :> 43) @@ ("," :> 44) @@ ("-" :> 45) @@ ("." :> 46) @@ ("/" :> 47)
    @@ ("0" :> 48) @@ ("1" :> 49) @@ ("2" :> 50) @@ ("3" :> 51) @@ ("4" :> 52) @@ ("5" :> 53)
    @@ ("6" :> 54) @@ ("7" :> 55) @@ ("8" :> 56) @@ ("9" :> 57) @@ (":" :> 58) @@ (";" :> 59)
    @@ ("<" :> 60) @@ ("=" :> 61) @@ (">" :> 62) @@ ("?" :> 63) @@ ("@" :> 64) @@ ("A" :> 65)
    @@ ("B" :> 66) @@ ("C" :> 67) @@ ("D" :> 68) @@ ("E" :> 69) @@ ("F" :> 70) @@ ("G" :> 71)
    @@ ("H" :> 72) @@ ("I" :> 73) @@ ("J" :> 74) @@ ("K" :> 75) @@ ("L" :> 76) @@ ("M" :> 77)
    @@ ("N" :> 78) @@ ("O" :> 79) @@ ("P" :> 80) @@ ("Q" :> 81) @@ ("R" :> 82) @@ ("S" :> 83)
    @@ ("T" :> 84) @@ ("U" :> 85) @@ ("V" :> 86) @@ ("W" :> 87) @@ ("X" :> 88) @@ ("Y" :> 89)
    @@ ("Z" :> 90) @@ ("[" :> 91) @@ ("\\" :> 92) @@ ("]" :> 93) @@ ("^" :> 94) @@ ("_" :> 95) @@ ("a" :> 97)
    @@ ("b" :> 98) @@ ("c" :> 99) @@ ("d" :> 100) @@ ("e" :> 101) @@ ("f" :> 102) @@ ("g" :> 103)
    @@ ("h" :> 104) @@ ("i" :> 105) @@ ("j" :> 106) @@ ("k" :> 107) @@ ("l" :> 108) @@ ("m" :> 109)
    @@ ("n" :> 110) @@ ("o" :> 111) @@ ("p" :> 112) @@ ("q" :> 113) @@ ("r" :> 114) @@ ("s" :> 115)
    @@ ("t" :> 116) @@ ("u" :> 117) @@ ("v" :> 118) @@ ("w" :> 119) @@ ("x" :> 120) @@ ("y" :> 121)
    @@ ("z" :> 122) @@ ("{" :> 123) @@ ("|" :> 124) @@ ("}" :> 125) @@ ("~" :> 126) @@ ("U+00E9" :> 233)

ascii_lower ==
       ("A" :> "a") @@ ("B" :> "b") @@ ("C" :> "c") @@ ("D" :> "d") @@ ("E" :> "e") @@ ("F" :> "f") @@ ("G" :> "g")
    @@ ("H" :> "h") @@ ("I" :> "i") @@ ("J" :> "j") @@ ("K" :> "k") @@ ("L" :> "l") @@ ("M" :> "m") @@ ("N" :> "n")
    @@ ("O" :> "o") @@ ("P" :> "p") @@ ("Q" :> "q") @@ ("R" :> "r") @@ ("S" :> "s") @@ ("T" :> "t") @@ ("U" :> "u")
    @@ ("V" :> "v") @@ ("W" :> "w") @@ ("X" :> "x") @@ ("Y" :> "y") @@ ("Z" :> "z")

uses_params ==
    { <<>>,
      <<"f", "t", "p">>,
      <<"h", "d", "l">>,
      <<"p", "r", "o", "s", "p", "e", "r", "o">>,
      <<"h", "t", "t", "p">>,
      <<"i", "m", "a", "p">>,
      <<"h", "t", "t", "p", "s">>,
      <<"s", "h", "t", "t", "p">>,
      <<"r", "t", "s", "p">>,
      <<"r", "t", "s", "p", "u">>,
      <<"s", "i", "p">>,
      <<"s", "i", "p", "s">>,
      <<"m", "m", "s">>,
      <<"s", "f", "t", "p">>,
      <<"t", "e", "l">> }

b64_alphabet ==
    << "A", "B", "C", "D", "E", "F", "G", "H", "I", "J", "K", "L", "M", "N", "O", "P",
       "Q", "R", "S", "T", "U", "V", "W", "X", "Y", "Z", "a", "b", "c", "d", "e", "f",
       "g", "h", "i", "j", "k", "l", "m", "n", "o", "p", "q", "r", "s", "t", "u", "v",
       "w", "x", "y", "z", "0", "1", "2", "3", "4", "5", "6", "7", "8", "9", "+", "/" >>

Min(a, b) == IF a <= b THEN a ELSE b

\* str.find(c, start): the first index >= start holding c, 0 when absent.
Find(s, c, start) ==
    IF \E i \in start..Len(s) : s[i] = c
    THEN CHOOSE i \in start..Len(s) :
             s[i] = c /\ \A j \in start..(i - 1) : s[j] # c
    ELSE 0

\* str.rfind(c): the last index holding c, 0 when absent.
RFind(s, c) ==
    IF \E i \in 1..Len(s) : s[i] = c
    THEN CHOOSE i \in 1..Len(s) :
             s[i] = c /\ \A j \in (i + 1)..Len(s) : s[j] # c
    ELSE 0

From(s, i) == SubSeq(s, i, Len(s))

Upto(s, i) == SubSeq(s, 1, i)

RECURSIVE ConcatRange(_, _, _)
\* the parts lo..hi joined, by halving so that long texts nest shallowly
ConcatRange(parts, lo, hi) ==
    IF lo > hi THEN <<>>
    ELSE IF lo = hi THEN parts[lo]
    ELSE LET mid == (lo + hi) \div 2
         IN  ConcatRange(parts, lo, mid) \o ConcatRange(parts, mid + 1, hi)

\* "".join(parts)
Concat(parts) == ConcatRange(parts, 1, Len(parts))

\* sep.join(parts)
Join(sep, parts) ==
    Concat([i \in 1..Len(parts) |-> IF i = 1 THEN parts[i] ELSE sep \o parts[i]])

\* str.lower() / str.upper() on ASCII text
Lower(s) ==
    [i \in 1..Len(s) |-> IF s[i] \in DOMAIN ascii_lower THEN ascii_lower[s[i]] ELSE s[i]]

Upper(s) ==
    [i \in 1..Len(s) |->
        IF \E u \in DOMAIN ascii_lower : ascii_lower[u] = s[i]
        THEN CHOOSE u \in DOMAIN ascii_lower : ascii_lower[u] = s[i]
        ELSE s[i]]

IsAsciiAlpha(c) ==
    c \in DOMAIN ascii_lower \/ \E u \in DOMAIN ascii_lower : ascii_lower[u] = c

IsDigit(c) == c \in {"0", "1", "2", "3", "4", "5", "6", "7", "8", "9"}

\* urllib.parse.scheme_chars: letters, digits and "+-."
IsSchemeChar(c) == IsAsciiAlpha(c) \/ IsDigit(c) \/ c \in {"+", "-", "."}

\* urllib.parse._WHATWG_C0_CONTROL_OR_SPACE, restricted to the characters
\* of CodeOf: the C0 controls and the space.
IsC0ControlOrSpace(c) == CodeOf[c] <= 32

\* urllib.parse._UNSAFE_URL_BYTES_TO_REMOVE = ["\t", "\r", "\n"]
IsUnsafeUrlByte(c) == c \in {"\t", "\r", "\n"}

RECURSIVE LStripC0(_)
LStripC0(s) ==
    IF s # <<>> /\ IsC0ControlOrSpace(Head(s)) THEN LStripC0(Tail(s)) ELSE s

RemoveUnsafe(s) == SelectSeq(s, LAMBDA c : ~IsUnsafeUrlByte(c))

----------------------------------------------------------------------------
(* urllib.parse.urlparse, as called by create_canonical_request.           *)

\* urllib.parse._splitnetloc(url, 2): the index where the netloc ends.
splitnetloc_delim(url) ==
    LET f(c) == IF Find(url, c, 3) > 0 THEN Find(url, c, 3) ELSE Len(url) + 1
    IN  Min(f("/"), Min(f("?"), f("#")))

\* urlsplit: `scheme, url = url[:i].lower(), url[i+1:]` when the text
\* before the first ":" is a scheme.
split_scheme(url) ==
    LET i == Find(url, ":", 1)
        hasScheme ==
            /\ i > 1
            /\ IsAsciiAlpha(url[1])
            /\ \A j \in 1..(i - 1) : IsSchemeChar(url[j])
    IN  IF hasScheme
        THEN [scheme |-> Lower(Upto(url, i - 1)), url |-> From(url, i + 1)]
        ELSE [scheme |-> <<>>, url |-> url]

\* urlsplit: `if url[:2] == '//': netloc, url = _splitnetloc(url, 2)`
split_netloc(r) ==
    IF Len(r.url) >= 2 /\ r.url[1] = "/" /\ r.url[2] = "/"
    THEN [scheme |-> r.scheme,
          netloc |-> SubSeq(r.url, 3, splitnetloc_delim(r.url) - 1),
          url    |-> From(r.url, splitnetloc_delim(r.url))]
    ELSE [scheme |-> r.scheme, netloc |-> <<>>, url |-> r.url]

\* urlsplit: `if '#' in url: url, fragment = url.split('#', 1)`
split_fragment(r) ==
    IF Find(r.url, "#", 1) > 0
    THEN [scheme |-> r.scheme, netloc |-> r.netloc,
          url      |-> Upto(r.url, Find(r.url, "#", 1) - 1),
          fragment |-> From(r.url, Find(r.url, "#", 1) + 1)]
    ELSE [scheme |-> r.scheme, netloc |-> r.netloc, url |-> r.url,
          fragment |-> <<>>]

\* urlsplit: `if '?' in url: url, query = url.split('?', 1)`, then the
\* SplitResult(scheme, netloc, url, query, fragment)
split_query(r) ==
    IF Find(r.url, "?", 1) > 0
    THEN [scheme |-> r.scheme, netloc |-> r.netloc,
          path  |-> Upto(r.url, Find(r.url, "?", 1) - 1),
          query |-> From(r.url, Find(r.url, "?", 1) + 1),
          fragment |-> r.fragment]
    ELSE [scheme |-> r.scheme, netloc |-> r.netloc, path |-> r.url,
          query |-> <<>>, fragment |-> r.fragment]

\* urllib.parse.urlsplit(url)
urlsplit(url) ==
    split_query(split_fragment(split_netloc(split_scheme(
        RemoveUnsafe(LStripC0(url))))))

\* urllib.parse._splitparams(url): the index of the ";" that starts the
\* parameters of the last path segment, 0 when there is none.
splitparams_at(url) ==
    IF Find(url, "/", 1) > 0
    THEN Find(url, ";", RFind(url, "/"))
    ELSE Find(url, ";", 1)

\* urlparse: `if scheme in uses_params and ';' in url:
\*                url, params = _splitparams(url)`
splitparams(r) ==
    IF r.scheme \in uses_params /\ splitparams_at(r.path) > 0
    THEN [scheme |-> r.scheme, netloc |-> r.netloc,
          path   |-> Upto(r.path, splitparams_at(r.path) - 1),
          params |-> From(r.path, splitparams_at(r.path) + 1),
          query  |-> r.query, fragment |-> r.fragment]
    ELSE [scheme |-> r.scheme, netloc |-> r.netloc, path |-> r.path,
          params |-> <<>>, query |-> r.query, fragment |-> r.fragment]

\* urllib.parse.urlparse(url): urlsplit, then the parameters of the last
\* path segment are cut off the path for the schemes of uses_params.
urlparse(url) == splitparams(urlsplit(url))

----------------------------------------------------------------------------
(* Authenticator.create_canonical_request (auth.py 38-71).                 *)

NL == <<"\n">>

\* auth.py 63: f"x-api-key:{headers['x-api-key']}\nx-timestamp:{timestamp}"
canonical_headers(headers, timestamp) ==
    <<"x", "-", "a", "p", "i", "-", "k", "e", "y", ":">> \o headers["x-api-key"]
        \o NL
        \o <<"x", "-", "t", "i", "m", "e", "s", "t", "a", "m", "p", ":">>
        \o timestamp

\* auth.py 64
signed_headers ==
    <<"x", "-", "a", "p", "i", "-", "k", "e", "y", ";",
      "x", "-", "t", "i", "m", "e", "s", "t", "a", "m", "p">>

\* faulty variant: the method token is upper-cased before it is written
method_token_upper(method) == Upper(method)

\* auth.py 67-70: the method token as the f-string writes it
method_token(method) == method

\* faulty variant: the host is signed with the path
canonical_path_with_host(url) ==
    urlparse(url).netloc
        \o (IF urlparse(url).path # <<>> THEN urlparse(url).path ELSE <<"/">>)

\* auth.py 60: parsed_url.path or "/"
canonical_path(url) ==
    IF urlparse(url).path # <<>> THEN urlparse(url).path ELSE <<"/">>

\* auth.py 61: parsed_url.query or ""
canonical_query(url) ==
    IF urlparse(url).query # <<>> THEN urlparse(url).query ELSE <<>>

\* faulty variant: the body is re-serialized without its spaces
canonical_body_compact(body) == SelectSeq(body, LAMBDA c : c # " ")

\* auth.py 65: body if body else ""
canonical_body(body) == IF Len(body) > 0 THEN body ELSE <<>>

create_canonical_request(method, url, headers, timestamp, body) ==
    method_token(method) \o NL \o canonical_path(url) \o NL
        \o canonical_query(url) \o NL
        \o canonical_headers(headers, timestamp) \o NL
        \o canonical_body(body) \o NL \o signed_headers

----------------------------------------------------------------------------
(* Authenticator.sign_request (auth.py 73-92) and the library primitives   *)
(* it calls.  SHA-256 and the P-256 group are scaled down: the digest is   *)
(* DigestSize bytes of a position-weighted checksum, and the curve is the  *)
(* additive group of integers modulo the prime GroupOrder with generator   *)
(* BasePoint, a point's x-coordinate being the point itself.  The signing and *)
(* verification equations, the DER layout and base64 are the real ones.    *)

DigestSize == 1

GroupOrder == 251

BasePoint == 5

\* str.encode("utf-8"), for code points below 2048
encode_utf8(s) ==
    Concat([i \in 1..Len(s) |->
        LET n == CodeOf[s[i]]
        IN  IF n < 128 THEN <<n>> ELSE <<192 + (n \div 64), 128 + (n % 64)>>])

RECURSIVE weighted_sum(_, _, _, _)
\* sum of (bytes[i] + 1) * (1 + ((i * step) % 7)) for i in lo..hi, modulo 256
weighted_sum(bytes, step, lo, hi) ==
    IF lo > hi THEN 0
    ELSE IF lo = hi THEN ((bytes[lo] + 1) * (1 + ((lo * step) % 7))) % 256
    ELSE LET mid == (lo + hi) \div 2
         IN  (weighted_sum(bytes, step, lo, mid)
                + weighted_sum(bytes, step, mid + 1, hi)) % 256

\* hashlib.sha256(data).digest(): DigestSize bytes
sha256(data) ==
    [j \in 1..DigestSize |->
        (17 * j + 3 * Len(data) + weighted_sum(data, 2 * j + 1, 1, Len(data))) % 256]

RECURSIVE int_from_bytes(_)
\* int.from_bytes(bytes, "big")
int_from_bytes(bytes) ==
    IF bytes = <<>> THEN 0
    ELSE int_from_bytes(Upto(bytes, Len(bytes) - 1)) * 256 + bytes[Len(bytes)]

mod_inverse(a) == CHOOSE x \in 1..(GroupOrder - 1) : (a * x) % GroupOrder = 1

\* the public half of an EC private key: Q = d*G
public_key(private_key) == (private_key.d * BasePoint) % GroupOrder

\* ECDSA signing of `data` with nonce k.  With utils.Prehashed the data is
\* the digest itself; otherwise the primitive hashes the data first.
ecdsa_rs(private_key, data, prehashed, k) ==
    LET digest == IF prehashed THEN data ELSE sha256(data)
        z == int_from_bytes(digest) % GroupOrder
        r == (k * BasePoint) % GroupOrder
        s == (mod_inverse(k) * (z + r * private_key.d)) % GroupOrder
    IN  [r |-> r, s |-> s]

\* a nonce is usable when neither half of the signature is zero
usable_nonce(private_key, data, prehashed, k) ==
    /\ ecdsa_rs(private_key, data, prehashed, k).r # 0
    /\ ecdsa_rs(private_key, data, prehashed, k).s # 0

\* ECDSA verification of (r, s) against a digest under public key Q
ecdsa_verify(Q, sig, digest) ==
    /\ sig.r \in 1..(GroupOrder - 1)
    /\ sig.s \in 1..(GroupOrder - 1)
    /\ LET z  == int_from_bytes(digest) % GroupOrder
           w  == mod_inverse(sig.s)
           u1 == (z * w) % GroupOrder
           u2 == (sig.r * w) % GroupOrder
       IN  (u1 * BasePoint + u2 * Q) % GroupOrder = sig.r

\* DER INTEGER: tag 2, length, big-endian bytes with a leading zero when
\* the top bit is set
der_integer(x) == IF x >= 128 THEN <<2, 2, 0, x>> ELSE <<2, 1, x>>

\* DER SEQUENCE { INTEGER r, INTEGER s }
der_encode(sig) ==
    LET body == der_integer(sig.r) \o der_integer(sig.s)
    IN  <<48, Len(body)>> \o body

der_decode(bytes) ==
    LET rlen == bytes[4]
        r    == int_from_bytes(SubSeq(bytes, 5, 4 + rlen))
        slen == bytes[6 + rlen]
        s    == int_from_bytes(SubSeq(bytes, 7 + rlen, 6 + rlen + slen))
    IN  [r |-> r, s |-> s]

RECURSIVE b64encode(_)
\* base64.b64encode(bytes).decode("utf-8")
b64encode(bytes) ==
    LET ch(n) == b64_alphabet[(n % 64) + 1]
    IN  IF bytes = <<>> THEN <<>>
        ELSE IF Len(bytes) = 1 THEN
            LET n == bytes[1] * 65536
            IN  <<ch(n \div 262144), ch(n \div 4096), "=", "=">>
        ELSE IF Len(bytes) = 2 THEN
            LET n == bytes[1] * 65536 + bytes[2] * 256
            IN  <<ch(n \div 262144), ch(n \div 4096), ch(n \div 64), "=">>
        ELSE
            LET n == bytes[1] * 65536 + bytes[2] * 256 + bytes[3]
            IN  <<ch(n \div 262144), ch(n \div 4096), ch(n \div 64), ch(n)>>
                    \o b64encode(From(bytes, 4))

RECURSIVE b64decode(_)
\* base64.b64decode(text)
b64decode(text) ==
    LET ix(c) == (CHOOSE i \in 1..64 : b64_alphabet[i] = c) - 1
    IN  IF text = <<>> THEN <<>>
        ELSE IF text[3] = "=" THEN
            LET n == ix(text[1]) * 262144 + ix(text[2]) * 4096
            IN  <<n \div 65536>>
        ELSE IF text[4] = "=" THEN
            LET n == ix(text[1]) * 262144 + ix(text[2]) * 4096 + ix(text[3]) * 64
            IN  <<n \div 65536, (n \div 256) % 256>>
        ELSE
            LET n == ix(text[1]) * 262144 + ix(text[2]) * 4096
                        + ix(text[3]) * 64 + ix(text[4])
            IN  <<n \div 65536, (n \div 256) % 256, n % 256>>
                    \o b64decode(From(text, 5))

\* auth.py 84: hashlib.sha256(canonical_request.encode("utf-8")).digest()
hashed(canonical_request) == sha256(encode_utf8(canonical_request))

\* faulty variant: the digest is signed as a message, so the primitive hashes it again
sign_request_rehash(private_key, canonical_request, k) ==
    b64encode(der_encode(
        ecdsa_rs(private_key, hashed(canonical_request), FALSE, k)))

\* auth.py 84-92 for an EC key and the nonce k drawn by the primitive
sign_request(private_key, canonical_request, k) ==
    b64encode(der_encode(
        ecdsa_rs(private_key, hashed(canonical_request), TRUE, k)))

\* the verifier's side: decode the header value and check it against a
\* digest of the canonical string computed on its own
signature_valid(Q, signature, canonical_request) ==
    ecdsa_verify(Q, der_decode(b64decode(signature)),
                 sha256(encode_utf8(canonical_request)))

----------------------------------------------------------------------------
(* Authenticator.get_auth_headers (auth.py 94-124).                        *)

RECURSIVE int_to_str(_)
\* str(n) for n >= 0
int_to_str(n) ==
    LET digit(d) == <<"0", "1", "2", "3", "4", "5", "6", "7", "8", "9">>[d + 1]
    IN  IF n < 10 THEN <<digit(n)>>
        ELSE int_to_str(n \div 10) \o <<digit(n % 10)>>

\* auth.py 111
SDK_VERSION == <<"1", ".", "0", ".", "0">>

\* auth.py 112
SDK_SOURCE ==
    <<"u", "n", "i", "v", "e", "r", "s", "a", "l", "-", "a", "d", "s", "-",
      "p", "y", "t", "h", "o", "n", "-", "s", "d", "k">>

\* faulty variant: the timestamp is kept and refreshed every other second, so
\* a call in between is given the one made for an earlier call
timestamp_kept(clock) == int_to_str((clock \div 2) * 2)

\* auth.py 106: str(int(time.time())), the clock read once
timestamp_of(clock) == int_to_str(clock)

\* auth.py 108-113: the headers before signing
unsigned_headers(api_key, timestamp) ==
    [h \in {"x-api-key", "x-timestamp", "x-sdk-version", "x-sdk-source"} |->
        CASE h = "x-api-key" -> api_key
          [] h = "x-timestamp" -> timestamp
          [] h = "x-sdk-version" -> SDK_VERSION
          [] h = "x-sdk-source" -> SDK_SOURCE]

\* auth.py 116-118: the canonical request of this call
canonical_of_call(api_key, method, url, body, timestamp) ==
    create_canonical_request(method, url,
        unsigned_headers(api_key, timestamp), timestamp, body)

\* faulty variant: the clock is read a second time for the canonical request
get_auth_headers_second_clock(self, method, url, body, clock, k) ==
    LET timestamp == timestamp_of(clock)
        headers   == unsigned_headers(self.api_key, timestamp)
        canonical_request ==
            canonical_of_call(self.api_key, method, url, body,
                              timestamp_of(clock + 1))
        signature == sign_request(self.private_key, canonical_request, k)
    IN  [h \in DOMAIN headers \cup {"x-signature"} |->
            IF h = "x-signature" THEN signature ELSE headers[h]]

\* auth.py 106-124 for an EC key, the clock reading and the nonce k
get_auth_headers(self, method, url, body, clock, k) ==
    LET timestamp == timestamp_of(clock)
        headers   == unsigned_headers(self.api_key, timestamp)
        canonical_request ==
            canonical_of_call(self.api_key, method, url, body, timestamp)
        signature == sign_request(self.private_key, canonical_request, k)
    IN  [h \in DOMAIN headers \cup {"x-signature"} |->
            IF h = "x-signature" THEN signature ELSE headers[h]]

----------------------------------------------------------------------------
(* Python values that reach _make_request as query parameters and body     *)
(* data: None, str, int, list and dict (a dict keeps insertion order, so   *)
(* it is a sequence of <<key, value>> pairs).                              *)

PyNone == [t |-> "None"]

PyStr(s) == [t |-> "str", v |-> s]

PyInt(n) == [t |-> "int", v |-> n]

PyDict(items) == [t |-> "dict", v |-> items]

PyList(items) == [t |-> "list", v |-> items]

\* bool(x)
Truthy(x) ==
    CASE x.t = "None" -> FALSE
      [] x.t = "int"  -> x.v # 0
      [] OTHER        -> x.v # <<>>

\* str(x) for str and int
py_str(x) == IF x.t = "int" THEN int_to_str(x.v) ELSE x.v

\* dict assignment d[key] = value: replaces in place or appends
dict_set(items, key, value) ==
    IF \E i \in 1..Len(items) : items[i][1] = key
    THEN [i \in 1..Len(items) |->
             IF items[i][1] = key THEN <<key, value>> ELSE items[i]]
    ELSE Append(items, <<key, value>>)

ascii_lower_hex(n) ==
    <<"0", "1", "2", "3", "4", "5", "6", "7", "8", "9",
      "a", "b", "c", "d", "e", "f">>[n + 1]

hex_digit(n) ==
    <<"0", "1", "2", "3", "4", "5", "6", "7", "8", "9",
      "A", "B", "C", "D", "E", "F">>[n + 1]

\* urllib.parse.quote_plus(s): letters, digits and "_.-~" are kept, a
\* space becomes "+", every other UTF-8 byte becomes %XX
quote_plus(s) ==
    Concat([i \in 1..Len(s) |->
        IF IsAsciiAlpha(s[i]) \/ IsDigit(s[i]) \/ s[i] \in {"_", ".", "-", "~"}
        THEN <<s[i]>>
        ELSE IF s[i] = " " THEN <<"+">>
        ELSE LET bytes == encode_utf8(<<s[i]>>)
             IN  Concat([j \in 1..Len(bytes) |->
                    <<"%", hex_digit(bytes[j] \div 16), hex_digit(bytes[j] % 16)>>])])

\* urllib.parse.urlencode(params) for a dict of str/int values
urlencode(params) ==
    Join(<<"&">>, [i \in 1..Len(params.v) |->
        quote_plus(params.v[i][1]) \o <<"=">> \o quote_plus(py_str(params.v[i][2]))])

\* json.dumps of a str (ensure_ascii=True)
json_string(s) ==
    <<"\"">> \o Concat([i \in 1..Len(s) |->
        CASE s[i] = "\""   -> <<"\\", "\"">>
          [] s[i] = "\\"   -> <<"\\", "\\">>
          [] s[i] = "\n"   -> <<"\\", "n">>
          [] CodeOf[s[i]] >= 128 ->
                <<"\\", "u", "0", "0",
                  ascii_lower_hex(CodeOf[s[i]] \div 16),
                  ascii_lower_hex(CodeOf[s[i]] % 16)>>
          [] OTHER -> <<s[i]>>]) \o <<"\"">>

\* json.dumps of a scalar value
json_value(x) ==
    CASE x.t = "None" -> <<"n", "u", "l", "l">>
      [] x.t = "int"  -> int_to_str(x.v)
      [] OTHER        -> json_string(x.v)

\* json.dumps(data) for a flat dict, with the default separators
json_dumps(data) ==
    <<"{">> \o Join(<<",", " ">>, [i \in 1..Len(data.v) |->
        json_string(data.v[i][1]) \o <<":", " ">> \o json_value(data.v[i][2])])
      \o <<"}">>

----------------------------------------------------------------------------
(* Construction: Authenticator.__init__ (auth.py 18-36) and                *)
(* UniversalAdsClient.__init__ (client.py 25-61).                          *)
(*                                                                         *)
(* A PEM text is described by what load_pem_private_key finds in it:       *)
(* whether it is well-formed PEM, whether the key is encrypted, and the    *)
(* key's algorithm.                                                        *)

PEM_EC == [wellformed |-> TRUE, encrypted |-> FALSE, algorithm |-> "EC", d |-> 7]

PEM_MALFORMED == [wellformed |-> FALSE, encrypted |-> FALSE, algorithm |-> "EC", d |-> 0]

PEM_ENCRYPTED == [wellformed |-> TRUE, encrypted |-> TRUE, algorithm |-> "EC", d |-> 7]

PEM_RSA == [wellformed |-> TRUE, encrypted |-> FALSE, algorithm |-> "RSA", d |-> 0]

NoObject == [type |-> "none"]

NoException == [type |-> "none"]

\* serialization.load_pem_private_key(data, password=None): malformed
\* data raises ValueError, an encrypted key without a password raises
\* TypeError, any other supported key is returned whatever its algorithm
load_pem_private_key(pem) ==
    IF ~pem.wellformed THEN [ok |-> FALSE, exc |-> "ValueError", key |-> NoObject]
    ELSE IF pem.encrypted THEN [ok |-> FALSE, exc |-> "TypeError", key |-> NoObject]
    ELSE [ok |-> TRUE, exc |-> "none",
          key |-> [type |-> pem.algorithm, d |-> pem.d]]

\* faulty variant: the PEM text is stored and parsed only when first used
Authenticator_init_lazy(api_key, private_key_pem) ==
    [ok |-> TRUE, exc |-> "none",
     self |-> [type |-> "Authenticator", api_key |-> api_key,
               private_key_pem |-> private_key_pem,
               private_key |-> [type |-> private_key_pem.algorithm,
                                d |-> private_key_pem.d]]]

\* auth.py 26-36
Authenticator_init(api_key, private_key_pem) ==
    LET loaded == load_pem_private_key(private_key_pem)
    IN  IF loaded.ok
        THEN [ok |-> TRUE, exc |-> "none",
              self |-> [type |-> "Authenticator", api_key |-> api_key,
                        private_key_pem |-> private_key_pem,
                        private_key |-> loaded.key]]
        ELSE [ok |-> FALSE, exc |-> "ValueError", self |-> NoObject]

\* client.py 23
BASE_URL == <<"h", "t", "t", "p", "s", ":", "/", "/", "a", "p", "i", ".", "u", "n", "i", "v", "e", "r", "s", "a", "l", "a", "d", "s", ".", "c", "o", "m", "/", "v", "1">>

\* client.py 57
status_forcelist == {429, 500, 502, 503, 504}

\* client.py 31
DEFAULT_MAX_RETRIES == 3

\* client.py 30
DEFAULT_TIMEOUT == 30

\* client.py 43-61; base_url is a str, "" when the caller gave none
UniversalAdsClient_init(api_key, private_key_pem, base_url, max_retries) ==
    LET a == Authenticator_init(api_key, private_key_pem)
    IN  IF a.ok
        THEN [ok |-> TRUE, exc |-> "none", cause |-> "none",
              self |-> [type |-> "UniversalAdsClient",
                        base_url |-> IF base_url # <<>> THEN base_url ELSE BASE_URL,
                        timeout |-> DEFAULT_TIMEOUT,
                        authenticator |-> a.self,
                        retry |-> [total |-> max_retries,
                                   backoff_factor |-> 1,
                                   status_forcelist |-> status_forcelist]]]
        ELSE [ok |-> FALSE, exc |-> "AuthenticationError", cause |-> a.exc,
              self |-> NoObject]

----------------------------------------------------------------------------
(* The public methods of UniversalAdsClient (client.py 140-378): each maps *)
(* its arguments to the arguments of one _make_request call.               *)

GET == <<"G", "E", "T">>

POST == <<"P", "O", "S", "T">>

PUT == <<"P", "U", "T">>

DELETE == <<"D", "E", "L", "E", "T", "E">>

\* "if x: params[key] = x"
set_if_truthy(items, key, x) == IF Truthy(x) THEN dict_set(items, key, x) ELSE items

request_args(method, endpoint, data, params) ==
    [method |-> method, endpoint |-> endpoint, data |-> data, params |-> params]

\* client.py 159-169
get_creatives(adaccount_id, limit, offset, sort) ==
    LET p1 == set_if_truthy(<<>>, <<"a", "d", "a", "c", "c", "o", "u", "n", "t", "_", "i", "d">>, adaccount_id)
        p2 == set_if_truthy(p1, <<"l", "i", "m", "i", "t">>, limit)
        p3 == set_if_truthy(p2, <<"o", "f", "f", "s", "e", "t">>, offset)
        p4 == set_if_truthy(p3, <<"s", "o", "r", "t">>, sort)
    IN  request_args(GET, <<"/", "c", "r", "e", "a", "t", "i", "v", "e">>, PyNone, PyDict(p4))

\* client.py 181
get_creative(creative_id) ==
    request_args(GET, <<"/", "c", "r", "e", "a", "t", "i", "v", "e", "/">> \o creative_id, PyNone, PyNone)

\* client.py 197-198
create_creative(adaccount_id, name, media_id) ==
    request_args(POST, <<"/", "c", "r", "e", "a", "t", "i", "v", "e">>,
        PyDict(<< <<<<"a", "d", "a", "c", "c", "o", "u", "n", "t", "_", "i", "d">>, PyStr(adaccount_id)>>,
                  <<<<"n", "a", "m", "e">>, PyStr(name)>>,
                  <<<<"m", "e", "d", "i", "a", "_", "i", "d">>, PyStr(media_id)>> >>),
        PyNone)

RECURSIVE dict_update(_, _)
\* dict.update(other)
dict_update(items, other) ==
    IF other = <<>> THEN items
    ELSE dict_update(dict_set(items, other[1][1], other[1][2]), Tail(other))

\* client.py 214-219; kwargs is the dict of the extra keyword arguments
update_creative(creative_id, name, kwargs) ==
    LET d1 == IF name.t # "None" THEN dict_set(<<>>, <<"n", "a", "m", "e">>, name) ELSE <<>>
    IN  request_args(PUT, <<"/", "c", "r", "e", "a", "t", "i", "v", "e", "/">> \o creative_id,
                     PyDict(dict_update(d1, kwargs)), PyNone)

\* faulty variant: the deletion is requested with POST
delete_creative_post(creative_id) ==
    request_args(POST, <<"/", "c", "r", "e", "a", "t", "i", "v", "e", "/">> \o creative_id, PyNone, PyNone)

\* client.py 231
delete_creative(creative_id) ==
    request_args(DELETE, <<"/", "c", "r", "e", "a", "t", "i", "v", "e", "/">> \o creative_id, PyNone, PyNone)

\* faulty variant: the whole path is taken for the file's name
whole_path(path) == path

\* os.path.basename(path): what follows the last "/"
basename(path) == From(path, RFind(path, "/") + 1)

\* client.py 251-256; filename is a str, "" when the caller gave none
upload_media(file_path, content_type, filename) ==
    LET name == IF filename = <<>> THEN basename(file_path) ELSE filename
    IN  request_args(POST, <<"/", "m", "e", "d", "i", "a">>,
            PyDict(<< <<<<"f", "i", "l", "e", "n", "a", "m", "e">>, PyStr(name)>>,
                      <<<<"c", "o", "n", "t", "e", "n", "t", "_", "t", "y", "p", "e">>, PyStr(content_type)>> >>),
            PyNone)

\* client.py 268
verify_media(media_id) ==
    request_args(POST, <<"/", "m", "e", "d", "i", "a", "/">> \o media_id \o <<"/", "v", "e", "r", "i", "f", "y">>, PyNone, PyNone)

\* client.py 295-304, 331-340, 367-376: the parameters of a report
report_params(start_date, end_date, adaccount_id, ids_key, ids, limit, offset) ==
    LET p0 == << <<<<"s", "t", "a", "r", "t", "_", "d", "a", "t", "e">>, PyStr(start_date)>>,
                 <<<<"e", "n", "d", "_", "d", "a", "t", "e">>, PyStr(end_date)>> >>
        p1 == set_if_truthy(p0, <<"a", "d", "a", "c", "c", "o", "u", "n", "t", "_", "i", "d">>, adaccount_id)
        p2 == set_if_truthy(p1, ids_key, ids)
        p3 == set_if_truthy(p2, <<"l", "i", "m", "i", "t">>, limit)
        p4 == set_if_truthy(p3, <<"o", "f", "f", "s", "e", "t">>, offset)
    IN  PyDict(p4)

\* client.py 295-306
get_campaign_report(start_date, end_date, adaccount_id, campaign_ids, limit, offset) ==
    request_args(GET, <<"/", "r", "e", "p", "o", "r", "t", "/", "c", "a", "m", "p", "a", "i", "g", "n">>, PyNone,
        report_params(start_date, end_date, adaccount_id,
                      <<"c", "a", "m", "p", "a", "i", "g", "n", "_", "i", "d", "s">>, campaign_ids, limit, offset))

\* client.py 331-342
get_adset_report(start_date, end_date, adaccount_id, adset_ids, limit, offset) ==
    request_args(GET, <<"/", "r", "e", "p", "o", "r", "t", "/", "a", "d", "s", "e", "t">>, PyNone,
        report_params(start_date, end_date, adaccount_id,
                      <<"a", "d", "s", "e", "t", "_", "i", "d", "s">>, adset_ids, limit, offset))

\* client.py 367-378
get_ad_report(start_date, end_date, adaccount_id, ad_ids, limit, offset) ==
    request_args(GET, <<"/", "r", "e", "p", "o", "r", "t", "/", "a", "d">>, PyNone,
        report_params(start_date, end_date, adaccount_id,
                      <<"a", "d", "_", "i", "d", "s">>, ad_ids, limit, offset))

----------------------------------------------------------------------------
(* UniversalAdsClient._make_request (client.py 63-136), in the order of    *)
(* its statements.                                                         *)

\* faulty variant: the parameters are left for the transport to append
build_url_without_query(base_url, endpoint, params) == base_url \o endpoint

\* client.py 86-91
build_url(base_url, endpoint, params) ==
    IF Truthy(params)
    THEN base_url \o endpoint \o <<"?">> \o urlencode(params)
    ELSE base_url \o endpoint

\* client.py 94-99
prepare_body(data) ==
    IF Truthy(data)
    THEN IF data.t = "str" THEN data.v ELSE json_dumps(data)
    ELSE <<>>

\* client.py 103
CONTENT_TYPE == <<"a", "p", "p", "l", "i", "c", "a", "t", "i", "o", "n", "/", "j", "s", "o", "n">>

\* faulty variant: the Content-Type header is not set
without_content_type(headers) == headers

with_content_type(headers) ==
    [h \in DOMAIN headers \cup {"Content-Type"} |->
        IF h = "Content-Type" THEN CONTENT_TYPE ELSE headers[h]]

\* faulty variant: the body handed to the transport is serialized again,
\* with compact separators
transport_args_reserialized(self, method, url, headers, body_str) ==
    [method |-> method, url |-> url, headers |-> headers,
     data |-> IF body_str # <<>>
              THEN PyStr(SelectSeq(body_str, LAMBDA c : c # " "))
              ELSE PyNone,
     params |-> PyNone, timeout |-> self.timeout]

\* client.py 106-113: the arguments session.request is called with
transport_args(self, method, url, headers, body_str) ==
    [method |-> method, url |-> url, headers |-> headers,
     data |-> IF body_str # <<>> THEN PyStr(body_str) ELSE PyNone,
     params |-> PyNone, timeout |-> self.timeout]

----------------------------------------------------------------------------
(* The HTTP transport: requests.Session with the urllib3 Retry policy of   *)
(* client.py 52-61, and the server's possible answers.                     *)

\* urllib3 Retry.DEFAULT_ALLOWED_METHODS: status-based and read retries
\* apply to these methods only
allowed_methods ==
    {<<"D", "E", "L", "E", "T", "E">>, <<"G", "E", "T">>, <<"H", "E", "A", "D">>, <<"O", "P", "T", "I", "O", "N", "S">>, <<"P", "U", "T">>, <<"T", "R", "A", "C", "E">>}

\* urllib3 Retry.is_retry(method, status_code); requests hands urllib3 the
\* upper-cased method
is_retry(retry, method, status_code) ==
    Upper(method) \in allowed_methods /\ status_code \in retry.status_forcelist

\* faulty variant: every attempt is given a timestamp of its own moment
attempt_headers_restamped(args, clock) ==
    [args.headers EXCEPT !["x-timestamp"] = timestamp_of(clock)]

\* client.py 105-113: session.request is called once with the headers of
\* line 102, and the adapter resends that prepared request on every retry
attempt_headers(args, clock) == args.headers

\* faulty variant: the budget is found used up one failure too late
is_exhausted_late(retry, n) == n > retry.total + 1

\* a failed attempt number n is retried unless the retry budget is used up
\* (Retry.increment, Retry.is_exhausted)
is_exhausted(retry, n) == n > retry.total

\* the bodies the server answers with
BODY_ID == <<"{", "\"", "i", "d", "\"", ":", " ", "\"", "x", "\"", "}">>

BODY_ERRORS == <<"{", "\"", "e", "r", "r", "o", "r", "s", "\"", ":", " ", "[", "{", "\"", "f", "i", "e", "l", "d", "\"", ":", " ", "\"", "a", "d", "a", "c", "c", "o", "u", "n", "t", "_", "i", "d", "\"", "}", "]", "}">>

BODY_LIST == <<"[", "\"", "d", "o", "w", "n", "\"", "]">>

BODY_TEXT == <<"o", "o", "p", "s">>

BODY_EMPTY == <<>>

\* what one attempt can meet: a response, or a failure to connect or read
Responses ==
    { [status_code |-> 200, text |-> BODY_ID],
      [status_code |-> 200, text |-> BODY_TEXT],
      [status_code |-> 201, text |-> BODY_ID],
      [status_code |-> 204, text |-> BODY_EMPTY],
      [status_code |-> 401, text |-> BODY_TEXT],
      [status_code |-> 422, text |-> BODY_ERRORS],
      [status_code |-> 422, text |-> BODY_LIST],
      [status_code |-> 429, text |-> BODY_TEXT],
      [status_code |-> 501, text |-> BODY_TEXT],
      [status_code |-> 503, text |-> BODY_TEXT] }

NoResponse == [status_code |-> 0, text |-> <<>>]

\* response.json(): json.loads of the body, on the bodies above; a body
\* that is not JSON raises a decoding error
response_json(response) ==
    CASE response.text = BODY_ID ->
            [ok |-> TRUE, value |-> PyDict(<< <<<<"i", "d">>, PyStr(<<"x">>)>> >>)]
      [] response.text = BODY_ERRORS ->
            [ok |-> TRUE,
             value |-> PyDict(<< <<<<"e", "r", "r", "o", "r", "s">>,
                          PyList(<< PyDict(<< <<<<"f", "i", "e", "l", "d">>,
                                                PyStr(<<"a", "d", "a", "c", "c", "o", "u", "n", "t", "_", "i", "d">>)>> >>) >>)>> >>)]
      [] response.text = BODY_LIST ->
            [ok |-> TRUE, value |-> PyList(<< PyStr(<<"d", "o", "w", "n">>) >>)]
      [] OTHER -> [ok |-> FALSE, value |-> PyNone]

\* exceptions.py 21-26
APIError(status_code, response_data) ==
    [type |-> "APIError", status_code |-> status_code,
     response_data |-> response_data]

EmptyDict == PyDict(<<>>)

\* client.py 135-136: raise APIError(f"Request failed: {e}"); no status
\* code, and response_data None becomes {} (exceptions.py 26)
request_failed == APIError(PyNone, EmptyDict)

Returned(value) == [kind |-> "return", value |-> value, exc |-> NoException]

Raised(exc) == [kind |-> "raise", value |-> PyNone, exc |-> exc]

NoResult == [kind |-> "none", value |-> PyNone, exc |-> NoException]

\* client.py 117-121: error_data = response.json(), or the raw text under
\* "message" when that raises
error_data_of(response) ==
    IF response_json(response).ok
    THEN response_json(response).value
    ELSE PyDict(<< <<<<"m", "e", "s", "s", "a", "g", "e">>, PyStr(response.text)>> >>)

\* faulty variant: a 401 of the server is raised as AuthenticationError
raise_for_error_unauthorized(status_code, error_data) ==
    IF error_data.t # "dict"
    THEN Raised([type |-> "AttributeError"])
    ELSE IF status_code = 401
    THEN Raised([type |-> "AuthenticationError"])
    ELSE Raised(APIError(PyInt(status_code), error_data))

\* client.py 123-127: the message is built with error_data.get, which only
\* a dict has; the AttributeError of any other JSON value is not a
\* RequestException
raise_for_error(status_code, error_data) ==
    IF error_data.t # "dict"
    THEN Raised([type |-> "AttributeError"])
    ELSE Raised(APIError(PyInt(status_code), error_data))

\* client.py 133: return response.json(); json_error_caught tells whether
\* the installed requests raises its JSONDecodeError as a RequestException
return_json(parsed, json_error_caught) ==
    IF parsed.ok THEN Returned(parsed.value)
    ELSE IF json_error_caught THEN Raised(request_failed)
    ELSE Raised([type |-> "JSONDecodeError"])

\* faulty variant: every response below 400 is parsed, 204 included
handle_response_parse_all(response, json_error_caught) ==
    IF response.status_code >= 400
    THEN raise_for_error(response.status_code, error_data_of(response))
    ELSE return_json(response_json(response), json_error_caught)

\* client.py 115-136 for a response the transport returned
handle_response(response, json_error_caught) ==
    IF response.status_code >= 400
    THEN raise_for_error(response.status_code, error_data_of(response))
    ELSE IF response.status_code = 204 THEN Returned(EmptyDict)
    ELSE return_json(response_json(response), json_error_caught)

----------------------------------------------------------------------------
(* State.                                                                  *)

VARIABLES
    client,     \* the object the last UniversalAdsClient(...) call returned
    ctor,       \* the last constructor call: its key and the exception raised
    now,        \* time.time() in whole seconds
    pc,         \* where the running client call stands
    call,       \* the locals of the running _make_request
    auth,       \* this call's get_auth_headers invocation and what it returned
    sent,       \* the arguments session.request was called with
    attempts,   \* HTTP attempts the transport has made for this call
    answer,     \* the last of these attempts: what it carried, how it ended
    response,   \* the response the transport returned
    result,     \* what the call returned or raised
    earlier,    \* the clock reading and timestamp of the client's previous call
    cin,        \* a request description given to the Authenticator directly
    cout,       \* its canonical request
    csig,       \* its signature
    cin2,       \* a second request description
    cout2,      \* the canonical request of the second
    authenticator,  \* an Authenticator that several threads call at once
    tpc,        \* per thread: the line of get_auth_headers it stands at
    frames      \* per thread: the arguments and locals of its call

clientVars ==
    <<client, ctor, now, pc, call, auth, sent, attempts, answer, response, result,
      earlier>>

directVars == <<cin, cout, csig, cin2, cout2>>

threadVars == <<authenticator, tpc, frames>>

vars == <<clientVars, earlier, directVars, threadVars>>

\* bounds of the model
ClockStart == 98

MaxTicks == 1

NonceChoices == {3, 200}

ApiKeys == {<<"K", "1">>, <<"k", "e", "y", "-", "2">>}

\* the configurations a client is constructed with: the defaults, and an
\* overridden base URL with a smaller retry budget
ClientConfigs ==
    { [api_key |-> <<"K", "1">>, base_url |-> <<>>,
       max_retries |-> DEFAULT_MAX_RETRIES],
      [api_key |-> <<"k", "e", "y", "-", "2">>,
       base_url |-> <<"h", "t", "t", "p", ":", "/", "/", "h">>,
       max_retries |-> 1] }

PEMs == {PEM_EC, PEM_MALFORMED, PEM_ENCRYPTED, PEM_RSA}

Ids == {<<"a", "b", "c">>, <<"a", ";", "b">>}

NoArgs == <<>>

NoCall ==
    [op |-> "none", args |-> NoArgs, method |-> <<>>, endpoint |-> <<>>, data |-> PyNone,
     params |-> PyNone, url |-> <<>>, body_str |-> <<>>, headers |-> <<>>]

NoAuth ==
    [called |-> FALSE, method |-> <<>>, url |-> <<>>, body |-> <<>>,
     clock |-> 0, canonical_request |-> <<>>, returned |-> <<>>]

NoSent == [called |-> FALSE]

NoAnswer ==
    [kind |-> "none", status_code |-> 0, timestamp |-> <<>>, signature |-> <<>>]

NoCtor ==
    [called |-> FALSE, api_key |-> <<>>, pem |-> PEM_EC, exc |-> "none",
     cause |-> "none"]

NoInput == [given |-> FALSE]

NoEarlier == [called |-> FALSE, clock |-> 0, timestamp |-> <<>>]

InitClient ==
    /\ client = NoObject
    /\ ctor = NoCtor
    /\ now = ClockStart
    /\ pc = "idle"
    /\ call = NoCall
    /\ auth = NoAuth
    /\ sent = NoSent
    /\ attempts = 0
    /\ answer = NoAnswer
    /\ response = NoResponse
    /\ result = NoResult
    /\ earlier = NoEarlier

InitDirectIdle ==
    /\ cin = NoInput
    /\ cout = <<>>
    /\ csig = <<>>
    /\ cin2 = NoInput
    /\ cout2 = <<>>

InitThreadsIdle ==
    /\ authenticator = NoObject
    /\ tpc = <<>>
    /\ frames = <<>>

Init == InitClient /\ InitDirectIdle /\ InitThreadsIdle

----------------------------------------------------------------------------
(* Actions of the client.                                                  *)

\* UniversalAdsClient(api_key, private_key_pem, base_url, max_retries)
NewClient ==
    /\ pc = "idle"
    /\ \E cfg \in ClientConfigs, pem \in PEMs :
          LET made == UniversalAdsClient_init(cfg.api_key, pem, cfg.base_url,
                                              cfg.max_retries)
          IN  /\ client' = made.self
              /\ ctor' = [called |-> TRUE, api_key |-> cfg.api_key, pem |-> pem,
                          exc |-> made.exc, cause |-> made.cause]
    /\ earlier' = NoEarlier
    /\ UNCHANGED <<now, pc, call, auth, sent, attempts, answer, response,
                   result, directVars, threadVars>>

\* the system clock advances
Tick ==
    /\ now < ClockStart + MaxTicks
    /\ client # NoObject
    /\ now' = now + 1
    /\ UNCHANGED <<client, ctor, pc, call, auth, sent, attempts, answer,
                   response, result, earlier, directVars, threadVars>>

\* client.py 86-99: a public method calls _make_request, which builds the
\* URL and the body
\* args are the arguments of the public method, in the order of its signature
Enter(op, args, a) ==
    /\ pc = "idle"
    /\ client # NoObject
    /\ call' = [op |-> op, args |-> args, method |-> a.method, endpoint |-> a.endpoint,
                data |-> a.data, params |-> a.params,
                url |-> build_url(client.base_url, a.endpoint, a.params),
                body_str |-> prepare_body(a.data), headers |-> <<>>]
    /\ pc' = "get_auth_headers"
    /\ UNCHANGED <<client, ctor, now, auth, sent, attempts, answer, response,
                   result, earlier, directVars, threadVars>>

OptAccount == {PyNone, PyStr(<<"x", " ", "y">>)}

\* the argument lists get_creatives is called with: adaccount_id, limit,
\* offset, sort
CreativesArgs ==
    { <<PyNone, PyNone, PyNone, PyNone>>,
      <<PyNone, PyInt(10), PyNone, PyNone>>,
      <<PyNone, PyInt(0), PyNone, PyNone>>,
      <<PyStr(<<"x", " ", "y">>), PyNone, PyNone, PyNone>>,
      <<PyNone, PyNone, PyInt(5), PyStr(<<"i", "d", "_", "a", "s", "c">>)>>,
      <<PyStr(<<"x", " ", "y">>), PyInt(10), PyInt(5),
        PyStr(<<"i", "d", "_", "a", "s", "c">>)>> }

Call_get_creatives ==
    \E args \in CreativesArgs :
        Enter("get_creatives", args,
              get_creatives(args[1], args[2], args[3], args[4]))

Call_get_creative ==
    \E creative_id \in Ids :
        Enter("get_creative", <<creative_id>>,
              get_creative(creative_id))

Call_create_creative ==
    Enter("create_creative",
          <<<<"a", "c", "c">>, <<"N", " ", "\"", "1", "\"">>, <<"m", "1">>>>,
          create_creative(<<"a", "c", "c">>, <<"N", " ", "\"", "1", "\"">>, <<"m", "1">>))

Call_update_creative ==
    \E name \in {PyNone, PyStr(<<"X">>)},
       kwargs \in {<<>>, << <<<<"s", "t", "a", "t", "u", "s">>, PyStr(<<"o", "n">>)>> >>} :
        Enter("update_creative",
              <<<<"a", "b", "c">>, name, kwargs>>,
              update_creative(<<"a", "b", "c">>, name, kwargs))

Call_delete_creative ==
    \E creative_id \in Ids :
        Enter("delete_creative", <<creative_id>>,
              delete_creative(creative_id))

Call_upload_media ==
    \E filename \in {<<>>, <<"v", ".", "m", "p", "4">>} :
        Enter("upload_media",
              <<<<"/", "t", "m", "p", "/", "a", ".", "m", "p", "4">>, <<"v", "i", "d", "e", "o", "/", "m", "p", "4">>,
               filename>>,
              upload_media(<<"/", "t", "m", "p", "/", "a", ".", "m", "p", "4">>, <<"v", "i", "d", "e", "o", "/", "m", "p", "4">>, filename))

Call_verify_media ==
    \E media_id \in Ids :
        Enter("verify_media", <<media_id>>, verify_media(media_id))

Call_get_campaign_report ==
    \E adaccount_id \in OptAccount, limit \in {PyNone, PyInt(10)} :
        Enter("get_campaign_report",
              <<<<"2", "0", "2", "4", "-", "0", "1", "-", "0", "1">>, <<"2", "0", "2", "4", "-", "0", "1", "-", "3", "1">>,
               adaccount_id, PyNone,
               limit, PyNone>>,
              get_campaign_report(<<"2", "0", "2", "4", "-", "0", "1", "-", "0", "1">>, <<"2", "0", "2", "4", "-", "0", "1", "-", "3", "1">>, adaccount_id,
                                  PyNone, limit, PyNone))

Call_get_adset_report ==
    \E adaccount_id \in OptAccount, offset \in {PyNone, PyInt(5)} :
        Enter("get_adset_report",
              <<<<"2", "0", "2", "4", "-", "0", "1", "-", "0", "1">>, <<"2", "0", "2", "4", "-", "0", "1", "-", "3", "1">>,
               adaccount_id, PyNone,
               PyNone, offset>>,
              get_adset_report(<<"2", "0", "2", "4", "-", "0", "1", "-", "0", "1">>, <<"2", "0", "2", "4", "-", "0", "1", "-", "3", "1">>, adaccount_id,
                               PyNone, PyNone, offset))

Call_get_ad_report ==
    \E adaccount_id \in OptAccount :
        Enter("get_ad_report",
              <<<<"2", "0", "2", "4", "-", "0", "1", "-", "0", "1">>, <<"2", "0", "2", "4", "-", "0", "1", "-", "3", "1">>,
               adaccount_id, PyNone,
               PyNone, PyNone>>,
              get_ad_report(<<"2", "0", "2", "4", "-", "0", "1", "-", "0", "1">>, <<"2", "0", "2", "4", "-", "0", "1", "-", "3", "1">>, adaccount_id,
                            PyNone, PyNone, PyNone))

\* _make_request called with a method token and arguments of the caller's
Call_make_request ==
    \E method \in {<<"g", "e", "t">>, <<"P", "a", "t", "c", "h">>},
       data \in {PyNone, PyStr(<<"r", "a", "w">>)},
       params \in {PyNone, PyDict(<< <<<<"q">>, PyStr(<<"a", "&", "b">>)>> >>)} :
        Enter("_make_request",
              <<method, data, params>>,
              request_args(method, <<"/", "c", "r", "e", "a", "t", "i", "v", "e">>, data, params))

\* client.py 102-103: get_auth_headers reads the clock, builds and signs
\* the canonical request; signing with a key that is not an EC key raises
\* TypeError, which _make_request does not catch
GetAuthHeaders ==
    /\ pc = "get_auth_headers"
    /\ LET self == client.authenticator
           invoked == [called |-> TRUE, method |-> call.method, url |-> call.url,
                       body |-> call.body_str, clock |-> now,
                       canonical_request |->
                           canonical_of_call(self.api_key, call.method, call.url,
                                             call.body_str, timestamp_of(now)),
                       returned |-> <<>>]
       IN  IF self.private_key.type # "EC"
           THEN /\ auth' = invoked
                /\ result' = Raised([type |-> "TypeError"])
                /\ pc' = "done"
                /\ call' = call
           ELSE \E k \in NonceChoices :
                /\ usable_nonce(self.private_key,
                                hashed(invoked.canonical_request), TRUE, k)
                /\ LET headers == get_auth_headers(self, call.method, call.url,
                                                   call.body_str, now, k)
                   IN  /\ auth' = [invoked EXCEPT !.returned = headers]
                       /\ call' = [call EXCEPT !.headers = with_content_type(headers)]
                /\ result' = result
                /\ pc' = "session_request"
    /\ UNCHANGED <<client, ctor, now, sent, attempts, answer, response,
                   earlier, directVars, threadVars>>

\* client.py 106-113: the request is handed to the session
SessionRequest ==
    /\ pc = "session_request"
    /\ sent' = [called |-> TRUE,
                args |-> transport_args(client, call.method, call.url,
                                        call.headers, call.body_str)]
    /\ pc' = "transport"
    /\ UNCHANGED <<client, ctor, now, call, auth, attempts, answer, response,
                   result, earlier, directVars, threadVars>>

\* one HTTP attempt that the server answers
AttemptResponse ==
    /\ pc = "transport"
    /\ \E r \in Responses :
        /\ answer' = [kind |-> "response", status_code |-> r.status_code,
                      timestamp |-> attempt_headers(sent.args, now)["x-timestamp"],
                      signature |-> attempt_headers(sent.args, now)["x-signature"]]
        /\ IF is_retry(client.retry, sent.args.method, r.status_code)
           THEN IF is_exhausted(client.retry, attempts + 1)
                THEN \* urllib3 MaxRetryError -> requests RetryError -> line 136
                     /\ result' = Raised(request_failed)
                     /\ response' = response
                     /\ pc' = "done"
                ELSE /\ UNCHANGED <<result, response, pc>>
           ELSE /\ response' = r
                /\ pc' = "handle_response"
                /\ result' = result
    /\ attempts' = attempts + 1
    /\ UNCHANGED <<client, ctor, now, call, auth, sent, earlier, directVars, threadVars>>

\* one HTTP attempt that fails below HTTP: the connection cannot be made,
\* or the response cannot be read (retried for allowed_methods only)
AttemptError ==
    /\ pc = "transport"
    /\ \E kind \in {"connect", "read"} :
        /\ answer' = [kind |-> kind, status_code |-> 0,
                      timestamp |-> attempt_headers(sent.args, now)["x-timestamp"],
                      signature |-> attempt_headers(sent.args, now)["x-signature"]]
        /\ IF is_exhausted(client.retry, attempts + 1)
              \/ (kind = "read" /\ Upper(sent.args.method) \notin allowed_methods)
           THEN \* requests ConnectionError / ReadTimeout -> line 136
                /\ result' = Raised(request_failed)
                /\ pc' = "done"
           ELSE UNCHANGED <<result, pc>>
    /\ attempts' = attempts + 1
    /\ UNCHANGED <<client, ctor, now, call, auth, sent, response, earlier, directVars, threadVars>>

\* client.py 115-133
HandleResponse ==
    /\ pc = "handle_response"
    /\ \E json_error_caught \in BOOLEAN :
        result' = handle_response(response, json_error_caught)
    /\ pc' = "done"
    /\ UNCHANGED <<client, ctor, now, call, auth, sent, attempts, answer,
                   response, earlier, directVars, threadVars>>

\* the call is over: the caller has the return value or the exception, and
\* the locals of _make_request are gone
Return ==
    /\ pc = "done"
    /\ pc' = "idle"
    /\ call' = NoCall
    /\ auth' = NoAuth
    /\ sent' = NoSent
    /\ attempts' = 0
    /\ answer' = NoAnswer
    /\ response' = NoResponse
    /\ result' = NoResult
    /\ earlier' = IF auth.called /\ auth.returned # <<>>
                  THEN [called |-> TRUE, clock |-> auth.clock,
                        timestamp |-> auth.returned["x-timestamp"]]
                  ELSE earlier
    /\ UNCHANGED <<client, ctor, now, directVars, threadVars>>

Next ==
    \/ NewClient
    \/ Tick
    \/ Call_get_creatives
    \/ Call_get_creative
    \/ Call_create_creative
    \/ Call_update_creative
    \/ Call_delete_creative
    \/ Call_upload_media
    \/ Call_verify_media
    \/ Call_get_campaign_report
    \/ Call_get_adset_report
    \/ Call_get_ad_report
    \/ Call_make_request
    \/ GetAuthHeaders
    \/ SessionRequest
    \/ AttemptResponse
    \/ AttemptError
    \/ HandleResponse
    \/ Return

Spec == Init /\ [][Next]_vars

----------------------------------------------------------------------------
(* The Authenticator used on its own: create_canonical_request and         *)
(* sign_request applied to request descriptions drawn from bounded sets.   *)

MaxTail == 3

TailChars == {"/", "a", "?", "#", ";"}

Tails == UNION {[1..n -> TailChars] : n \in 0..MaxTail}

\* the authenticators' keys and the base URLs their requests go to
DirectClients ==
    { [api_key |-> <<"K", "1">>,
       prefix  |-> <<"h", "t", "t", "p", "s", ":", "/", "/", "h">>],
      [api_key |-> <<"k", "e", "y", "-", "2">>,
       prefix  |-> <<"h", "t", "t", "p", ":", "/", "/", "n", "/", "v", "1">>] }

DirectMethods == {GET, <<"g", "e", "t">>}

DirectBodies == {<<>>, <<"{", "\"", "a", "\"", ":", " ", "1", "}">>}

\* the method and body of the first request
DirectCalls ==
    { <<GET, <<>>>>,
      <<<<"g", "e", "t">>, <<"{", "\"", "a", "\"", ":", " ", "1", "}">>>> }

DirectRequests ==
    { [method |-> mb[1], prefix |-> c.prefix, tail |-> t, api_key |-> c.api_key,
       timestamp |-> timestamp_of(ClockStart), body |-> mb[2]] :
        mb \in DirectCalls, c \in DirectClients, t \in Tails }

url_of(req) == req.prefix \o req.tail

Given(req) == [given |-> TRUE, req |-> req]

\* the Authenticator of the direct calls
direct_authenticator(api_key) == Authenticator_init(api_key, PEM_EC).self

\* create_canonical_request as get_auth_headers calls it (auth.py 116-118)
canonical_of(req) ==
    canonical_of_call(req.api_key, req.method, url_of(req), req.body,
                      req.timestamp)

InitDirect ==
    /\ InitClient
    /\ cin \in {Given(req) : req \in DirectRequests}
    /\ cout = <<>>
    /\ csig = <<>>
    /\ cin2 = NoInput
    /\ cout2 = <<>>
    /\ InitThreadsIdle

\* create_canonical_request on the first request
CreateCanonicalRequest ==
    /\ cin.given
    /\ cout = <<>>
    /\ cout' = canonical_of(cin.req)
    /\ UNCHANGED <<cin, csig, cin2, cout2, clientVars, threadVars>>

\* sign_request on the canonical request
SignRequest ==
    /\ cout # <<>>
    /\ csig = <<>>
    /\ cin2 = NoInput
    /\ \E k \in NonceChoices :
        LET self == direct_authenticator(cin.req.api_key)
        IN  /\ usable_nonce(self.private_key, hashed(cout), TRUE, k)
            /\ csig' = sign_request(self.private_key, cout, k)
    /\ UNCHANGED <<cin, cout, cin2, cout2, clientVars, threadVars>>

\* the tails one edit away from a tail
TailEdits(tail) ==
    {[tail EXCEPT ![i] = c] : i \in 1..Len(tail), c \in TailChars}
        \cup {Append(tail, c) : c \in {d \in TailChars : Len(tail) < MaxTail}}
        \cup {Upto(tail, Len(tail) - 1) : x \in {d \in {1} : Len(tail) > 0}}

\* scheme, host and port of another server a request may be addressed to
Origins == {<<"h", "t", "t", "p", ":", "/", "/", "g", ":", "8">>}

\* what follows scheme, host and port in a base URL: the text from the
\* first "/" after the "//"
BasePath(prefix) ==
    LET start == Find(prefix, ":", 1) + 3
    IN  IF Find(prefix, "/", start) > 0
        THEN From(prefix, Find(prefix, "/", start))
        ELSE <<>>

\* the base URLs with the same path on another server, scheme or port
OtherOrigins(prefix) == {o \o BasePath(prefix) : o \in Origins} \ {prefix}

\* the requests that differ from req in one argument (or in none)
Variations(req) ==
    {[req EXCEPT !.method = m] : m \in DirectMethods}
        \cup {[req EXCEPT !.api_key = a] : a \in ApiKeys}
        \cup {[req EXCEPT !.timestamp = timestamp_of(ClockStart + 1)]}
        \cup {[req EXCEPT !.body = b] : b \in DirectBodies}
        \cup {[req EXCEPT !.tail = t] : t \in TailEdits(req.tail)}
        \cup {[req EXCEPT !.prefix = p] : p \in OtherOrigins(req.prefix)}

\* create_canonical_request on a second request
CreateSecondCanonicalRequest ==
    /\ cout # <<>>
    /\ csig = <<>>
    /\ cin2 = NoInput
    /\ \E req \in Variations(cin.req) :
        /\ cin2' = Given(req)
        /\ cout2' = canonical_of(req)
    /\ UNCHANGED <<cin, cout, csig, clientVars, threadVars>>

NextDirect ==
    \/ CreateCanonicalRequest
    \/ SignRequest
    \/ CreateSecondCanonicalRequest

SpecDirect == InitDirect /\ [][NextDirect]_vars

----------------------------------------------------------------------------
(* Concurrent get_auth_headers calls on one Authenticator (auth.py 94-124). *)
(* Each thread runs the method line by line in a frame of its own; the     *)
(* threads share the Authenticator object and the system clock.            *)

Threads == {1, 2}

ThreadApiKey == <<"K", "1">>

\* the arguments the threads call get_auth_headers with
ThreadCalls ==
    { [method |-> GET, url |-> <<"h", "t", "t", "p", "s", ":", "/", "/", "h", "/", "a", "?", "b", "=", "1">>, body |-> <<>>],
      [method |-> POST, url |-> <<"h", "t", "t", "p", "s", ":", "/", "/", "h", "/", "a">>, body |-> <<"{", "\"", "a", "\"", ":", " ", "1", "}">>],
      [method |-> <<"P", "U", "T">>, url |-> <<"h", "t", "t", "p", "s", ":", "/", "/", "h", "/", "c">>, body |-> <<"{", "\"", "a", "\"", ":", " ", "1", "}">>] }

\* a frame before the call: no arguments, no locals
NoFrame ==
    [method |-> <<>>, url |-> <<>>, body |-> <<>>, clock |-> 0, k |-> 0,
     timestamp |-> <<>>, headers |-> <<>>, canonical_request |-> <<>>,
     returned |-> <<>>]

\* faulty variant: the timestamp is kept in one place for all calls, which
\* holds the latest reading of any of them
shared_timestamp(fs, t) ==
    fs[CHOOSE u \in DOMAIN fs :
          \A v \in DOMAIN fs : fs[v].clock <= fs[u].clock].timestamp

\* auth.py 110, 117: the local `timestamp` of the call thread t runs
local_timestamp(fs, t) == fs[t].timestamp

\* auth.py 122: headers["x-signature"] = signature
with_signature(headers, signature) ==
    [h \in DOMAIN headers \cup {"x-signature"} |->
        IF h = "x-signature" THEN signature ELSE headers[h]]

InitThreads ==
    /\ InitClient
    /\ InitDirectIdle
    /\ authenticator = Authenticator_init(ThreadApiKey, PEM_EC).self
    /\ tpc = [t \in Threads |-> "idle"]
    /\ frames = [t \in Threads |-> NoFrame]

\* the system clock advances while the threads run
ThreadTick ==
    /\ now < ClockStart + MaxTicks
    /\ now' = now + 1
    /\ UNCHANGED <<client, ctor, pc, call, auth, sent, attempts, answer,
                   response, result, earlier, directVars, threadVars>>

\* auth.py 94: thread t calls get_auth_headers(method, url, body)
ThreadCall(t) ==
    /\ tpc[t] \in {"idle", "done"}
    /\ \E c \in ThreadCalls :
          frames' = [frames EXCEPT ![t] =
                        [NoFrame EXCEPT !.method = c.method, !.url = c.url,
                                        !.body = c.body]]
    /\ tpc' = [tpc EXCEPT ![t] = "106"]
    /\ UNCHANGED <<authenticator, clientVars, directVars>>

\* auth.py 106: timestamp = str(int(time.time()))
ThreadTimestamp(t) ==
    /\ tpc[t] = "106"
    /\ frames' = [frames EXCEPT ![t].clock = now,
                                ![t].timestamp = timestamp_of(now)]
    /\ tpc' = [tpc EXCEPT ![t] = "108"]
    /\ UNCHANGED <<authenticator, clientVars, directVars>>

\* auth.py 108-113: headers = {...}
ThreadHeaders(t) ==
    /\ tpc[t] = "108"
    /\ frames' = [frames EXCEPT ![t].headers =
                     unsigned_headers(authenticator.api_key,
                                      local_timestamp(frames, t))]
    /\ tpc' = [tpc EXCEPT ![t] = "116"]
    /\ UNCHANGED <<authenticator, clientVars, directVars>>

\* auth.py 116-118: canonical_request = self.create_canonical_request(...)
ThreadCanonical(t) ==
    /\ tpc[t] = "116"
    /\ frames' = [frames EXCEPT ![t].canonical_request =
                     create_canonical_request(frames[t].method, frames[t].url,
                         frames[t].headers, local_timestamp(frames, t),
                         frames[t].body)]
    /\ tpc' = [tpc EXCEPT ![t] = "121"]
    /\ UNCHANGED <<authenticator, clientVars, directVars>>

\* auth.py 121-122: the canonical request is signed and the signature added
ThreadSign(t) ==
    /\ tpc[t] = "121"
    /\ \E k \in NonceChoices :
          /\ usable_nonce(authenticator.private_key,
                          hashed(frames[t].canonical_request), TRUE, k)
          /\ frames' = [frames EXCEPT
                 ![t].k = k,
                 ![t].headers = with_signature(frames[t].headers,
                     sign_request(authenticator.private_key,
                                  frames[t].canonical_request, k))]
    /\ tpc' = [tpc EXCEPT ![t] = "124"]
    /\ UNCHANGED <<authenticator, clientVars, directVars>>

\* auth.py 124: return headers
ThreadReturn(t) ==
    /\ tpc[t] = "124"
    /\ frames' = [frames EXCEPT ![t].returned = frames[t].headers]
    /\ tpc' = [tpc EXCEPT ![t] = "done"]
    /\ UNCHANGED <<authenticator, clientVars, directVars>>

NextThreads ==
    \/ ThreadTick
    \/ \E t \in Threads : ThreadCall(t)
    \/ \E t \in Threads : ThreadTimestamp(t)
    \/ \E t \in Threads : ThreadHeaders(t)
    \/ \E t \in Threads : ThreadCanonical(t)
    \/ \E t \in Threads : ThreadSign(t)
    \/ \E t \in Threads : ThreadReturn(t)

SpecThreads == InitThreads /\ [][NextThreads]_vars

----------------------------------------------------------------------------
(* What the claims compare the code against.                               *)

\* the first index >= start holding one of the characters, 0 when absent
FindAny(s, chars, start) ==
    IF \E i \in start..Len(s) : s[i] \in chars
    THEN CHOOSE i \in start..Len(s) :
             s[i] \in chars /\ \A j \in start..(i - 1) : s[j] \notin chars
    ELSE 0

\* RFC 3986, appendix B: the five components of a URI reference
rfc3986(url) ==
    LET d1 == FindAny(url, {":", "/", "?", "#"}, 1)
        hasScheme == d1 > 1 /\ url[d1] = ":"
        afterScheme == IF hasScheme THEN From(url, d1 + 1) ELSE url
        hasAuthority ==
            Len(afterScheme) >= 2 /\ afterScheme[1] = "/" /\ afterScheme[2] = "/"
        d2 == FindAny(afterScheme, {"/", "?", "#"}, 3)
        authority ==
            IF ~hasAuthority THEN <<>>
            ELSE IF d2 = 0 THEN From(afterScheme, 3)
            ELSE SubSeq(afterScheme, 3, d2 - 1)
        afterAuthority ==
            IF ~hasAuthority THEN afterScheme
            ELSE IF d2 = 0 THEN <<>>
            ELSE From(afterScheme, d2)
        d3 == FindAny(afterAuthority, {"?", "#"}, 1)
        path == IF d3 = 0 THEN afterAuthority ELSE Upto(afterAuthority, d3 - 1)
        afterPath == IF d3 = 0 THEN <<>> ELSE From(afterAuthority, d3)
        d4 == Find(afterPath, "#", 1)
        query ==
            IF afterPath = <<>> \/ afterPath[1] # "?" THEN <<>>
            ELSE IF d4 = 0 THEN From(afterPath, 2)
            ELSE SubSeq(afterPath, 2, d4 - 1)
        fragment == IF d4 = 0 THEN <<>> ELSE From(afterPath, d4 + 1)
    IN  [scheme |-> IF hasScheme THEN Upto(url, d1 - 1) ELSE <<>>,
         authority |-> authority, path |-> path, query |-> query,
         fragment |-> fragment]

\* the path of the request target that is sent for a URL: the URL's path,
\* "/" when it is empty
sent_path(url) == IF rfc3986(url).path = <<>> THEN <<"/">> ELSE rfc3986(url).path

\* the query of the request target that is sent for a URL
sent_query(url) == rfc3986(url).query

RECURSIVE Line(_, _)
\* the n-th of the lines of a text
Line(text, n) ==
    LET e == Find(text, "\n", 1)
    IN  IF n = 1 THEN (IF e = 0 THEN text ELSE Upto(text, e - 1))
        ELSE IF e = 0 THEN <<>>
        ELSE Line(From(text, e + 1), n - 1)

Lit_x_api_key == <<"x", "-", "a", "p", "i", "-", "k", "e", "y", ":">>

Lit_x_timestamp == <<"x", "-", "t", "i", "m", "e", "s", "t", "a", "m", "p", ":">>

Lit_signed == <<"x", "-", "a", "p", "i", "-", "k", "e", "y", ";", "x", "-", "t", "i", "m", "e", "s", "t", "a", "m", "p">>

\* the six parts of the canonical request of a request description
SixParts(req) ==
    << req.method,
       canonical_path(url_of(req)),
       canonical_query(url_of(req)),
       Lit_x_api_key \o req.api_key \o <<"\n">> \o Lit_x_timestamp \o req.timestamp,
       req.body,
       Lit_signed >>

\* the parts laid end to end with one newline between neighbours
LaidOut(text, parts) ==
    /\ Len(text) = Len(parts[1]) + Len(parts[2]) + Len(parts[3]) + Len(parts[4])
                     + Len(parts[5]) + Len(parts[6]) + 5
    /\ \A n \in 1..6 :
        LET before == IF n = 1 THEN 0
                      ELSE Len(Concat(SubSeq(parts, 1, n - 1))) + (n - 1)
        IN  /\ SubSeq(text, before + 1, before + Len(parts[n])) = parts[n]
            /\ n > 1 => text[before] = "\n"

----------------------------------------------------------------------------
(* Claims.                                                                 *)

\* C1: create_canonical_request returns exactly the six parts method, path,
\* query, the two-line header block "x-api-key:<key>\nx-timestamp:<ts>", body
\* and the literal "x-api-key;x-timestamp", in that order, joined by single
\* newlines with nothing added, trimmed or re-encoded; a second call with
\* identical inputs returns the identical string.
C1_CanonicalIsSixPartsJoined ==
    /\ cout # <<>> => LaidOut(cout, SixParts(cin.req))
    /\ (cin2.given /\ cin2.req = cin.req) => cout2 = cout

C1_Witness ==
    /\ cout # <<>>
    /\ cin.req.method = <<"g", "e", "t">>
    /\ cin.req.body # <<>>
    /\ canonical_query(url_of(cin.req)) # <<>>
    /\ cin2.given
    /\ cin2.req = cin.req

\* C2: the method token is never case-normalized: the first line of the
\* canonical request that is signed is the caller's method exactly (so "get"
\* does not sign as "GET"), and _make_request hands the same unmodified
\* token to get_auth_headers and to the transport.
C2_MethodTokenAsGiven ==
    /\ auth.called =>
        /\ auth.method = call.method
        /\ Line(auth.canonical_request, 1) = call.method
        /\ call.method # Upper(call.method) =>
              Line(auth.canonical_request, 1) # Upper(call.method)
    /\ sent.called => sent.args.method = call.method

C2_Witness ==
    /\ pc = "done"
    /\ sent.called
    /\ call.method = <<"g", "e", "t">>

\* C3: in create_canonical_request the path segment is the URL's path, or
\* "/" when the URL has an empty path, and the query segment is the URL's
\* query string, or empty when the URL has no query.
C3_SegmentsAreUrlPathAndQuery ==
    cout # <<>> =>
        /\ Line(cout, 2) = sent_path(url_of(cin.req))
        /\ Line(cout, 3) = sent_query(url_of(cin.req))

\* the components of a request that the signature is meant to bind
Components(req) ==
    << req.method, sent_path(url_of(req)), sent_query(url_of(req)),
       req.api_key, req.timestamp, req.body >>

\* two requests differ in exactly one bound component, everything else
\* (scheme, authority, fragment) being equal
DifferInExactlyOne(r1, r2) ==
    /\ Cardinality({n \in 1..6 : Components(r1)[n] # Components(r2)[n]}) = 1
    /\ rfc3986(url_of(r1)).scheme = rfc3986(url_of(r2)).scheme
    /\ rfc3986(url_of(r1)).authority = rfc3986(url_of(r2)).authority
    /\ rfc3986(url_of(r1)).fragment = rfc3986(url_of(r2)).fragment

\* C4: two requests that differ in exactly one of method, path, query, api
\* key, timestamp or body have different canonical requests.
C4_OneComponentChangesCanonical ==
    (cin2.given /\ DifferInExactlyOne(cin.req, cin2.req)) => cout2 # cout

\* C5: sign_request(c) is the base64 text of an ECDSA signature over
\* SHA-256(UTF-8(c)) hashed once: decoded, it validates under the key's
\* public half against a digest of c computed independently.
C5_SignatureValidates ==
    csig # <<>> =>
        signature_valid(public_key(direct_authenticator(cin.req.api_key).private_key),
                        csig, Concat(<<
                            SixParts(cin.req)[1], <<"\n">>, SixParts(cin.req)[2], <<"\n">>,
                            SixParts(cin.req)[3], <<"\n">>, SixParts(cin.req)[4], <<"\n">>,
                            SixParts(cin.req)[5], <<"\n">>, SixParts(cin.req)[6] >>))

C5_Witness ==
    /\ csig # <<>>
    /\ cin.req.body # <<>>
    /\ der_decode(b64decode(csig)).r >= 128

Lit_sdk_version == <<"1", ".", "0", ".", "0">>

Lit_sdk_source == <<"u", "n", "i", "v", "e", "r", "s", "a", "l", "-", "a", "d", "s", "-", "p", "y", "t", "h", "o", "n", "-", "s", "d", "k">>

Lit_json == <<"a", "p", "p", "l", "i", "c", "a", "t", "i", "o", "n", "/", "j", "s", "o", "n">>

AuthHeaderNames ==
    {"x-api-key", "x-timestamp", "x-sdk-version", "x-sdk-source", "x-signature"}

\* C6: every request handed to the transport, with or without a body,
\* carries x-api-key, x-timestamp, x-sdk-version, x-sdk-source, x-signature
\* and Content-Type: application/json; get_auth_headers returns exactly the
\* first five, x-api-key being the configured key and the SDK tags fixed.
C6_RequiredHeaders ==
    /\ auth.returned # <<>> =>
        /\ DOMAIN auth.returned = AuthHeaderNames
        /\ auth.returned["x-api-key"] = client.authenticator.api_key
        /\ auth.returned["x-api-key"] = ctor.api_key
        /\ auth.returned["x-sdk-version"] = Lit_sdk_version
        /\ auth.returned["x-sdk-source"] = Lit_sdk_source
    /\ sent.called =>
        /\ DOMAIN sent.args.headers = AuthHeaderNames \cup {"Content-Type"}
        /\ sent.args.headers["Content-Type"] = Lit_json
        /\ \A h \in AuthHeaderNames : sent.args.headers[h] = auth.returned[h]

C6_Witness ==
    /\ pc = "transport"
    /\ sent.called
    /\ sent.args.data = PyNone
    /\ call.op = "delete_creative"

\* C7: in the headers get_auth_headers returns, x-signature is a signature
\* of the canonical request built from that call's method, url and body and
\* from the api key and timestamp that appear in its x-api-key and
\* x-timestamp headers. It is stated where get_auth_headers has just
\* returned to _make_request.
C7_SignatureCoversReturnedHeaders ==
    (pc = "session_request" /\ auth.returned # <<>>) =>
        signature_valid(public_key(client.authenticator.private_key),
            auth.returned["x-signature"],
            create_canonical_request(auth.method, auth.url, auth.returned,
                auth.returned["x-timestamp"], auth.body))

C7_Witness ==
    /\ pc = "session_request"
    /\ auth.returned # <<>>
    /\ auth.body # <<>>
    /\ auth.clock > ClockStart

\* C8 as stated: constructing a client with a malformed PEM string fails
\* with KeyFormatError and no client object is returned.
C8_MalformedPemKeyFormatError ==
    (ctor.called /\ ~ctor.pem.wellformed) =>
        (ctor.exc = "KeyFormatError" /\ client = NoObject)

\* C8 amended: constructing a client with a malformed PEM string fails with
\* AuthenticationError, raised for the ValueError of Authenticator.__init__,
\* and no client object is returned.
C8_MalformedPemAuthenticationError ==
    (ctor.called /\ ~ctor.pem.wellformed) =>
        /\ ctor.exc = "AuthenticationError"
        /\ ctor.cause = "ValueError"
        /\ client = NoObject

C8_Witness == ctor.called /\ ~ctor.pem.wellformed /\ client = NoObject

\* C9: a private key that is password-protected, or that parses as PEM but is
\* not an EC key, is rejected at construction time; no constructed
\* Authenticator fails for a key-format reason in sign_request or
\* get_auth_headers.
C9_UnusableKeyRejectedAtConstruction ==
    /\ (ctor.called /\ (ctor.pem.encrypted \/ ctor.pem.algorithm # "EC")) =>
            client = NoObject
    /\ result.kind = "raise" => result.exc.type # "TypeError"

\* C10: the full URL, encoded query string included, is built before
\* get_auth_headers is invoked; the URL given to the Authenticator is the
\* URL given to the transport, which receives no separate query parameters;
\* so the signed query is the query sent.
C10_UrlBuiltBeforeSigning ==
    /\ pc = "get_auth_headers" =>
        call.url = client.base_url \o call.endpoint
                     \o (IF Truthy(call.params)
                         THEN <<"?">> \o urlencode(call.params) ELSE <<>>)
    /\ auth.called =>
        /\ auth.url = call.url
        /\ Truthy(call.params) =>
              Line(auth.canonical_request, 3) = urlencode(call.params)
    /\ sent.called =>
        /\ sent.args.url = auth.url
        /\ sent.args.params = PyNone
        /\ Line(auth.canonical_request, 3) = sent_query(sent.args.url)

C10_Witness ==
    /\ pc = "done"
    /\ sent.called
    /\ Truthy(call.params)
    /\ Len(call.params.v) >= 2

\* the body that goes on the wire for the arguments of session.request:
\* the data string, nothing when data is None
wire_body(args) == IF args.data = PyNone THEN <<>> ELSE args.data.v

\* C11: the body is serialized once, where _make_request prepares it; that
\* one string is the body argument of get_auth_headers, the body segment of
\* the canonical request that is signed, and the string sent on the wire.
C11_SignedBodyIsSentBody ==
    /\ auth.called =>
        /\ auth.body = call.body_str
        /\ Line(auth.canonical_request, 6) = call.body_str
    /\ sent.called =>
        /\ wire_body(sent.args) = auth.body
        /\ wire_body(sent.args) = Line(auth.canonical_request, 6)

C11_Witness ==
    /\ pc = "done"
    /\ sent.called
    /\ call.op = "update_creative"
    /\ call.method = PUT
    /\ wire_body(sent.args) = <<"{", "\"", "n", "a", "m", "e", "\"", ":", " ", "\"", "X", "\"", "}">>

\* C12: structured body data, an empty mapping included, is sent and signed
\* as its JSON text; a string body is sent and signed unchanged; the body
\* is empty only when no body data was given.
C12_StructuredBodyIsJson ==
    sent.called =>
        /\ call.data.t = "dict" =>
            /\ wire_body(sent.args) = json_dumps(call.data)
            /\ Line(auth.canonical_request, 6) = json_dumps(call.data)
        /\ call.data.t = "str" =>
            /\ wire_body(sent.args) = call.data.v
            /\ Line(auth.canonical_request, 6) = call.data.v
        /\ wire_body(sent.args) = <<>> => call.data = PyNone

Lit_body_id == <<"{", "\"", "i", "d", "\"", ":", " ", "\"", "x", "\"", "}">>

\* C13: a 204 response makes _make_request return an empty mapping, its
\* body not being parsed (an empty body would not parse); a response with
\* another 2xx status and a JSON body returns the parsed body, and nothing
\* but the parsed body is ever returned for it: for example 200 with
\* {"id": "x"} returns the mapping with id = "x".
C13_SuccessResults ==
    (pc = "done" /\ response # NoResponse) =>
        /\ response.status_code = 204 => result = Returned(PyDict(<<>>))
        /\ (response.status_code \in 200..299 /\ response.status_code # 204) =>
            /\ response.text = Lit_body_id =>
                  result = Returned(PyDict(<< <<<<"i", "d">>, PyStr(<<"x">>)>> >>))
            /\ result.kind = "return" =>
                  /\ response_json(response).ok
                  /\ result.value = response_json(response).value

C13_Witness ==
    /\ pc = "done"
    /\ response.status_code = 200
    /\ response.text = Lit_body_id
    /\ result.kind = "return"
    /\ result.value.v[1][2] = PyStr(<<"x">>)

Lit_body_errors == <<"{", "\"", "e", "r", "r", "o", "r", "s", "\"", ":", " ", "[", "{", "\"", "f", "i", "e", "l", "d", "\"", ":", " ", "\"", "a", "d", "a", "c", "c", "o", "u", "n", "t", "_", "i", "d", "\"", "}", "]", "}">>

\* what the claim expects as response_data for a body: the parsed JSON
\* value, or a mapping that wraps the raw text when the body is not JSON
ExpectedResponseData(text) ==
    IF response_json([status_code |-> 0, text |-> text]).ok
    THEN response_json([status_code |-> 0, text |-> text]).value
    ELSE PyDict(<< <<<<"m", "e", "s", "s", "a", "g", "e">>, PyStr(text)>> >>)

\* C14: when the answer that ends a call is an HTTP response with status
\* >= 400, the call raises APIError with that status as status_code and the
\* parsed JSON body (whatever its shape), or the wrapped raw text, as
\* response_data; for 422 with {"errors": [{"field": "adaccount_id"}]},
\* response_data.errors[0].field is "adaccount_id".
C14_ErrorResponsesAreAPIErrors ==
    (pc = "done" /\ answer.kind = "response" /\ answer.status_code >= 400) =>
        /\ result.kind = "raise"
        /\ result.exc.type = "APIError"
        /\ result.exc.status_code = PyInt(answer.status_code)
        /\ response.status_code = answer.status_code
        /\ result.exc.response_data = ExpectedResponseData(response.text)
        /\ response.text = Lit_body_errors =>
              result.exc.response_data.v[1][2].v[1].v[1]
                  = <<<<"f", "i", "e", "l", "d">>, PyStr(<<"a", "d", "a", "c", "c", "o", "u", "n", "t", "_", "i", "d">>)>>

\* the call ended in the transport: the request was handed to the session
\* and no response came back to _make_request (connection or read failure,
\* or retries exhausted)
TransportFailed == pc = "done" /\ sent.called /\ response = NoResponse

\* C15: a transport-level failure raises a transport error whose type is
\* not the APIError that HTTP error responses raise.
C15_TransportErrorIsDistinct ==
    TransportFailed =>
        /\ result.kind = "raise"
        /\ result.exc.type = "TransportError"
        /\ result.exc.type # "APIError"

\* C16 as stated: one client method call makes at most max_retries HTTP
\* attempts in total, 3 with the default configuration.
C16_AtMostMaxRetriesAttempts ==
    client # NoObject => attempts <= client.retry.total

\* C16 amended: max_retries counts the retries, not the attempts: one
\* client method call makes at most max_retries + 1 HTTP attempts, 4 with
\* the default configuration, and after that many attempts the call has
\* left the transport to return or raise.
C16_AtMostMaxRetriesPlusOneAttempts ==
    client # NoObject =>
        /\ attempts <= client.retry.total + 1
        /\ client.retry.total = DEFAULT_MAX_RETRIES => attempts <= 4
        /\ attempts = client.retry.total + 1 => pc # "transport"

C16_Witness ==
    /\ client # NoObject
    /\ client.retry.total = 3
    /\ attempts = 4
    /\ pc = "done"
    /\ result.kind = "raise"

\* C17: whatever the endpoint, an HTTP attempt that a response answers is
\* followed by another attempt exactly when the status is 429 or in
\* 500..599 and the retry budget is not used up; a 4xx status other than
\* 429 is never followed by another attempt.
C17_RetriedExactlyOn429And5xx ==
    [][(attempts' = attempts + 1 /\ answer'.kind = "response") =>
          /\ (pc' = "transport") <=>
                /\ answer'.status_code = 429 \/ answer'.status_code \in 500..599
                /\ attempts' <= client.retry.total
          /\ (answer'.status_code \in 400..499 /\ answer'.status_code # 429) =>
                pc' # "transport"]_vars

Lit_creatives_keys == << <<"a", "d", "a", "c", "c", "o", "u", "n", "t", "_", "i", "d">>, <<"l", "i", "m", "i", "t">>, <<"o", "f", "f", "s", "e", "t">>, <<"s", "o", "r", "t">> >>

\* the query parameters the claim expects of get_creatives(adaccount_id,
\* limit, offset, sort): one per argument the caller supplied (not None),
\* with the supplied value
SuppliedParams(args) ==
    SelectSeq([i \in 1..4 |-> <<Lit_creatives_keys[i], args[i]>>],
              LAMBDA kv : kv[2] # PyNone)

\* C18: the query string get_creatives sends, and signs, holds a key for
\* exactly the arguments the caller supplied, each with the supplied value
\* whatever it is, and nothing else; limit=10 alone gives "limit=10".
C18_QueryHoldsSuppliedParams ==
    (sent.called /\ call.op = "get_creatives") =>
        /\ sent_query(sent.args.url) = urlencode(PyDict(SuppliedParams(call.args)))
        /\ Line(auth.canonical_request, 3) = urlencode(PyDict(SuppliedParams(call.args)))
        /\ call.args = <<PyNone, PyInt(10), PyNone, PyNone>> =>
              sent_query(sent.args.url) = <<"l", "i", "m", "i", "t", "=", "1", "0">>

\* the headers a call by thread t must return: those computed from its own
\* arguments and its own clock reading alone
OwnHeaders(t) ==
    get_auth_headers(Authenticator_init(ThreadApiKey, PEM_EC).self,
                     frames[t].method, frames[t].url, frames[t].body,
                     frames[t].clock, frames[t].k)

\* C19: no get_auth_headers step writes to the Authenticator's api key or
\* parsed private key, and however the steps of concurrent calls on one
\* Authenticator interleave, the headers a call returns carry the timestamp
\* of that call's own clock reading and a signature of the canonical request
\* of that call's own method, url, body and timestamp.
C19_ConcurrentCallsAreIndependent ==
    authenticator # NoObject =>
        /\ authenticator.api_key = ThreadApiKey
        /\ authenticator.private_key = load_pem_private_key(PEM_EC).key
        /\ \A t \in Threads :
              tpc[t] = "done" =>
                 /\ frames[t].returned = OwnHeaders(t)
                 /\ frames[t].returned["x-timestamp"] = int_to_str(frames[t].clock)
                 /\ signature_valid(public_key(authenticator.private_key),
                        frames[t].returned["x-signature"],
                        canonical_of_call(ThreadApiKey, frames[t].method,
                            frames[t].url, frames[t].body,
                            int_to_str(frames[t].clock)))

\* thread 1 began after thread 2 had read the clock and returned while
\* thread 2 was still between its signing and its return
C19_Witness ==
    /\ authenticator # NoObject
    /\ tpc[1] = "done"
    /\ tpc[2] = "124"
    /\ frames[2].clock < frames[1].clock
    /\ frames[1].method # frames[2].method
    /\ frames[1].returned["x-timestamp"] # frames[2].headers["x-timestamp"]

\* get_auth_headers is invoked once in a call and reads the clock at that
\* moment; what it returned stays this call's until the call is over
InvokedOncePerCall ==
    auth' # auth =>
        \/ /\ pc = "get_auth_headers"
           /\ ~auth.called
           /\ auth'.called
           /\ auth'.clock = now
        \/ /\ pc = "done"
           /\ auth' = NoAuth

\* the headers of this call are made from this call's clock reading
HeadersAreThisCalls ==
    /\ sent.called =>
          /\ auth.called
          /\ auth.returned # <<>>
          /\ \A h \in DOMAIN auth.returned :
                sent.args.headers[h] = auth.returned[h]
    /\ (auth.called /\ auth.returned # <<>>) =>
          /\ auth.returned["x-timestamp"] = int_to_str(auth.clock)
          /\ (earlier.called /\ earlier.clock < auth.clock) =>
                auth.returned["x-timestamp"] # earlier.timestamp
    /\ pc = "session_request" =>
          signature_valid(public_key(client.authenticator.private_key),
              auth.returned["x-signature"],
              canonical_of_call(client.authenticator.api_key, auth.method,
                                auth.url, auth.body, int_to_str(auth.clock)))

\* C20: every client call builds its auth headers anew. get_auth_headers is
\* invoked once in a call, before the request is sent, and reads the clock
\* at that moment; the headers sent carry the timestamp of this call's clock
\* reading and a signature of the canonical request with that timestamp, not
\* the timestamp of the call before when the clock has moved on since.
C20_HeadersBuiltAnewPerCall ==
    [][InvokedOncePerCall]_vars /\ []HeadersAreThisCalls

\* a call made after an earlier call of the same client, the clock having
\* advanced in between, has sent its request
C20_Witness ==
    /\ pc = "done"
    /\ sent.called
    /\ auth.called
    /\ earlier.called
    /\ earlier.clock < auth.clock
    /\ sent.args.headers["x-timestamp"] = int_to_str(auth.clock)

\* C21: AuthenticationError is raised by the construction of a client, when
\* the Authenticator cannot be set up, and by nothing else: a constructor
\* call that fails fails with it and leaves no client, no request method
\* raises it, and a 401 of the server is raised as APIError with status_code
\* 401.
C21_AuthenticationErrorOnlyAtConstruction ==
    /\ ctor.called =>
          /\ (ctor.exc = "AuthenticationError") = (ctor.cause # "none")
          /\ (ctor.exc = "AuthenticationError") = (client = NoObject)
          /\ ctor.exc \in {"none", "AuthenticationError"}
    /\ result.kind = "raise" => result.exc.type # "AuthenticationError"
    /\ (pc = "done" /\ response.status_code = 401) =>
          /\ result.kind = "raise"
          /\ result.exc.type = "APIError"
          /\ result.exc.status_code = PyInt(401)

C21_Witness ==
    /\ pc = "done"
    /\ client # NoObject
    /\ response.status_code = 401
    /\ result.kind = "raise"
    /\ result.exc.type = "APIError"

\* the endpoint table: the HTTP method and the path of each public method,
\* args being the arguments of the call
EndpointMethod(op) ==
    CASE op \in {"get_creatives", "get_creative", "get_campaign_report",
                 "get_adset_report", "get_ad_report"} -> <<"G", "E", "T">>
      [] op \in {"create_creative", "upload_media", "verify_media"} -> <<"P", "O", "S", "T">>
      [] op = "update_creative" -> <<"P", "U", "T">>
      [] op = "delete_creative" -> <<"D", "E", "L", "E", "T", "E">>

EndpointPath(op, args) ==
    CASE op = "get_creatives" -> <<"/", "c", "r", "e", "a", "t", "i", "v", "e">>
      [] op = "get_creative" -> <<"/", "c", "r", "e", "a", "t", "i", "v", "e", "/">> \o args[1]
      [] op = "create_creative" -> <<"/", "c", "r", "e", "a", "t", "i", "v", "e">>
      [] op = "update_creative" -> <<"/", "c", "r", "e", "a", "t", "i", "v", "e", "/">> \o args[1]
      [] op = "delete_creative" -> <<"/", "c", "r", "e", "a", "t", "i", "v", "e", "/">> \o args[1]
      [] op = "upload_media" -> <<"/", "m", "e", "d", "i", "a">>
      [] op = "verify_media" -> <<"/", "m", "e", "d", "i", "a", "/">> \o args[1] \o <<"/", "v", "e", "r", "i", "f", "y">>
      [] op = "get_campaign_report" -> <<"/", "r", "e", "p", "o", "r", "t", "/", "c", "a", "m", "p", "a", "i", "g", "n">>
      [] op = "get_adset_report" -> <<"/", "r", "e", "p", "o", "r", "t", "/", "a", "d", "s", "e", "t">>
      [] op = "get_ad_report" -> <<"/", "r", "e", "p", "o", "r", "t", "/", "a", "d">>

PublicMethods ==
    {"get_creatives", "get_creative", "create_creative", "update_creative",
     "delete_creative", "upload_media", "verify_media", "get_campaign_report",
     "get_adset_report", "get_ad_report"}

\* the URL without its query string
BeforeQuery(url) ==
    IF \E i \in 1..Len(url) : url[i] = "?"
    THEN SubSeq(url, 1, (CHOOSE i \in 1..Len(url) :
                            url[i] = "?" /\ \A j \in 1..(i - 1) : url[j] # "?") - 1)
    ELSE url

\* C22: the one request a public method hands to the session has the HTTP
\* method of the endpoint table and, before its query string, the URL made
\* of the client's base URL and the path of the endpoint table.
C22_EndpointTable ==
    (call.op \in PublicMethods) =>
        /\ call.method = EndpointMethod(call.op)
        /\ call.endpoint = EndpointPath(call.op, call.args)
        /\ sent.called =>
              /\ sent.args.method = EndpointMethod(call.op)
              /\ BeforeQuery(sent.args.url)
                    = client.base_url \o EndpointPath(call.op, call.args)
              /\ auth.method = sent.args.method
              /\ auth.url = sent.args.url

C22_Witness ==
    /\ sent.called
    /\ pc = "done"
    /\ call.op = "verify_media"
    /\ client.base_url = <<"h", "t", "t", "p", ":", "/", "/", "h">>
    /\ sent.args.url = <<"h", "t", "t", "p", ":", "/", "/", "h", "/", "m", "e", "d", "i", "a", "/", "a", "b", "c", "/", "v", "e", "r", "i", "f", "y">>
    /\ sent.args.method = <<"P", "O", "S", "T">>

\* C23: once a client is constructed, a call of a request method that has
\* handed its request to the session ends in one of two ways, whatever the
\* server answers and however the transport fails: it returns a mapping, or
\* it raises APIError.
C23_MappingOrAPIError ==
    (pc = "done" /\ client # NoObject /\ sent.called) =>
        \/ result.kind = "return" /\ result.value.t = "dict"
        \/ result.kind = "raise" /\ result.exc.type = "APIError"

\* the signing of this call failed: get_auth_headers was entered and
\* returned no headers
SigningFailed == pc = "done" /\ auth.called /\ auth.returned = <<>>

\* C24: when the signing primitive reports an error in sign_request, the
\* caller of the request method gets a SigningError, and no HTTP request is
\* sent for that call.
C24_SigningErrorPropagates ==
    SigningFailed =>
        /\ result.kind = "raise"
        /\ result.exc.type = "SigningError"
        /\ ~sent.called
        /\ attempts = 0

\* the request of a media call is handed to the session once
MediaRequestSentOnce ==
    (call.op \in {"upload_media", "verify_media"} /\ sent' # sent) =>
        \/ ~sent.called /\ sent'.called /\ pc = "session_request"
        \/ sent.called /\ sent' = NoSent /\ pc = "done"

\* what the media calls sign and send
MediaRequests ==
    /\ (call.op = "upload_media" /\ sent.called) =>
          /\ sent.args.method = <<"P", "O", "S", "T">>
          /\ sent.args.url = client.base_url \o <<"/", "m", "e", "d", "i", "a">>
          /\ sent.args.data =
                IF call.args[3] = <<>>
                THEN PyStr(<<"{", "\"", "f", "i", "l", "e", "n", "a", "m", "e", "\"", ":", " ", "\"", "a", ".", "m", "p", "4", "\"", ",", " ", "\"", "c", "o", "n", "t", "e", "n", "t", "_", "t", "y", "p", "e", "\"", ":", " ", "\"", "v", "i", "d", "e", "o", "/", "m", "p", "4", "\"", "}">>)
                ELSE PyStr(<<"{", "\"", "f", "i", "l", "e", "n", "a", "m", "e", "\"", ":", " ", "\"", "v", ".", "m", "p", "4", "\"", ",", " ", "\"", "c", "o", "n", "t", "e", "n", "t", "_", "t", "y", "p", "e", "\"", ":", " ", "\"", "v", "i", "d", "e", "o", "/", "m", "p", "4", "\"", "}">>)
          /\ auth.body = sent.args.data.v
    /\ (call.op = "verify_media" /\ sent.called) =>
          /\ sent.args.method = <<"P", "O", "S", "T">>
          /\ sent.args.url = client.base_url \o <<"/", "m", "e", "d", "i", "a", "/">> \o call.args[1]
                                \o <<"/", "v", "e", "r", "i", "f", "y">>
          /\ sent.args.data = PyNone
          /\ auth.body = <<>>
    /\ (call.op \in {"upload_media", "verify_media"} /\ auth.called) =>
          /\ auth.method = <<"P", "O", "S", "T">>
          /\ auth.url = call.url
          /\ sent.called =>
                /\ auth.returned # <<>>
                /\ sent.args.headers["x-signature"] = auth.returned["x-signature"]
                /\ sent.args.url = auth.url

\* C25: in the upload flow the client signs and sends one request per call
\* and nothing else: upload_media a POST to /media whose body holds the
\* filename (the base name of file_path when none is given) and the
\* content_type, verify_media a POST to /media/{id}/verify without a body;
\* no PUT, and no request to another URL, is signed or sent.
C25_UploadFlowRequests ==
    [][MediaRequestSentOnce]_vars /\ []MediaRequests

C25_Witness ==
    /\ pc = "done"
    /\ call.op = "upload_media"
    /\ call.args[1] = <<"/", "t", "m", "p", "/", "a", ".", "m", "p", "4">>
    /\ call.args[3] = <<>>
    /\ sent.called
    /\ sent.args.data = PyStr(<<"{", "\"", "f", "i", "l", "e", "n", "a", "m", "e", "\"", ":", " ", "\"", "a", ".", "m", "p", "4", "\"", ",", " ", "\"", "c", "o", "n", "t", "e", "n", "t", "_", "t", "y", "p", "e", "\"", ":", " ", "\"", "v", "i", "d", "e", "o", "/", "m", "p", "4", "\"", "}">>)
    /\ result.kind = "return"

\* the headers are made before the first attempt and an attempt changes
\* neither them nor the request handed to the session
AttemptsKeepHeaders ==
    attempts' = attempts + 1 =>
        /\ auth.called
        /\ auth.returned # <<>>
        /\ auth' = auth
        /\ sent' = sent

\* every attempt carries the timestamp and signature made for the call
AttemptsCarryCallHeaders ==
    answer.kind # "none" =>
        /\ answer.timestamp = auth.returned["x-timestamp"]
        /\ answer.signature = auth.returned["x-signature"]
        /\ answer.timestamp = int_to_str(auth.clock)
        /\ auth.clock <= now

\* C26: within one call the auth headers are computed once, before the first
\* HTTP attempt, and every attempt of the call, retries included, carries
\* that x-timestamp and x-signature: a retry made after the clock has moved
\* on is sent with the timestamp of the first attempt.
C26_RetriesCarryFirstTimestamp ==
    [][AttemptsKeepHeaders]_vars /\ []AttemptsCarryCallHeaders

\* a retry was made after the clock had moved on since the headers were made
C26_Witness ==
    /\ attempts >= 2
    /\ answer.kind # "none"
    /\ auth.clock < now
    /\ answer.timestamp = int_to_str(auth.clock)
    /\ answer.timestamp # int_to_str(now)

C28_APIErrorShapes ==
    (pc = "done" /\ result.kind = "raise" /\ result.exc.type = "APIError") =>
        \/ /\ answer.kind = "response"
           /\ answer.status_code >= 400
           /\ result.exc.status_code = PyInt(answer.status_code)
           /\ answer.status_code \notin status_forcelist =>
                 result.exc.response_data = ExpectedResponseData(response.text)
        \/ /\ answer.kind \in {"connect", "read"}
           /\ result.exc.status_code = PyNone
           /\ result.exc.response_data = PyDict(<<>>)

=============================================================================
